---- MODULE Spec2Model ----
(***************************************************************************)
(* IcePanel MCP server: the bin launcher, the startup configuration check  *)
(* of main.ts, the tool handlers registered with the MCP server, the       *)
(* transport function apiRequest and the list functions of icepanel.ts     *)
(* with their filter-to-query-parameter encoders.                          *)
(*                                                                         *)
(* Two specifications share the module:                                    *)
(*   EncSpec  - the four list functions of icepanel.ts applied to a filter *)
(*              description drawn from a bounded set (pure functions);     *)
(*   Spec     - the process: launcher, configuration check, registration,  *)
(*              connect, then tool invocations with their remote calls.    *)
(***************************************************************************)
EXTENDS Integers, Sequences, FiniteSets, TLC

(***************************************************************************)
(* Bounds.                                                                 *)
(***************************************************************************)
\* longest list value / largest labels sub-map in a filter description
MaxListLen == 2
\* largest number of keys in a filter description
MaxKeys == 2

(***************************************************************************)
(* JavaScript values that occur in a filter description.                   *)
(***************************************************************************)
Undefined == [kind |-> "undefined"]
Null == [kind |-> "null"]
Str(s) == [kind |-> "string", s |-> s]
Bool(b) == [kind |-> "boolean", b |-> b]
\* an array of scalars
Arr(items) == [kind |-> "array", items |-> items]
\* a plain object, as the sequence of its own entries in enumeration order
Obj(entries) == [kind |-> "object", entries |-> entries]

\* typeof value === 'object' : true of plain objects, of arrays and of null
TypeofIsObject(value) == value.kind \in {"object", "array", "null"}

\* Array.isArray(value)
IsArray(value) == value.kind = "array"

\* String(value) / the string conversion URLSearchParams.append applies
JsString(value) ==
  CASE value.kind = "string" -> value.s
    [] value.kind = "boolean" -> (IF value.b THEN "true" ELSE "false")
    [] value.kind = "object" -> "[object Object]"
    [] value.kind = "null" -> "null"
    [] value.kind = "undefined" -> "undefined"

\* Object.entries(value) for a non-null value of type 'object': the entries
\* of a plain object, the (index, item) pairs of an array
ObjectEntries(value) ==
  IF value.kind = "array"
    THEN [i \in 1..Len(value.items) |-> <<ToString(i - 1), value.items[i]>>]
    ELSE value.entries

\* one query parameter held by a URLSearchParams
Param(name, value) == [name |-> name, value |-> value]

\* outcome of converting one entry / a whole filter: the parameters appended,
\* or a TypeError thrown out of the function
Appended(params) == [error |-> "none", params |-> params]
Thrown(error) == [error |-> error, params |-> <<>>]

\* params.append(`filter[${key}][]`, item) for each item of an array value
ArrayParams(key, value) ==
  [i \in 1..Len(value.items) |->
     Param("filter[" \o key \o "][]", JsString(value.items[i]))]

\* params.append(`filter[labels][${labelKey}]`, labelValue) for each entry
LabelParams(value) ==
  LET es == ObjectEntries(value)
  IN [i \in 1..Len(es) |->
        Param("filter[labels][" \o es[i][1] \o "]", JsString(es[i][2]))]

(***************************************************************************)
(* The body of the forEach callback of each of the four list functions:    *)
(* what one (key, value) entry of the filter appends to params.            *)
(***************************************************************************)
getCatalogTechnologiesEntry(key, value) ==
  IF value.kind = "undefined" THEN Appended(<<>>)
  ELSE IF IsArray(value) THEN Appended(ArrayParams(key, value))
  ELSE IF value.kind = "null"
    THEN Appended(<<Param("filter[" \o key \o "]", "null")>>)
  ELSE Appended(<<Param("filter[" \o key \o "]", JsString(value))>>)

\* the callback without its  value !== undefined  test
getOrganizationTechnologiesEntry_NoUnsetTest(key, value) ==
  IF IsArray(value) THEN Appended(ArrayParams(key, value))
  ELSE IF value.kind = "null"
    THEN Appended(<<Param("filter[" \o key \o "]", "null")>>)
  ELSE Appended(<<Param("filter[" \o key \o "]", JsString(value))>>)

getOrganizationTechnologiesEntry(key, value) ==
  IF value.kind = "undefined" THEN Appended(<<>>)
  ELSE IF IsArray(value) THEN Appended(ArrayParams(key, value))
  ELSE IF value.kind = "null"
    THEN Appended(<<Param("filter[" \o key \o "]", "null")>>)
  ELSE Appended(<<Param("filter[" \o key \o "]", JsString(value))>>)

getModelObjectsEntry(key, value) ==
  IF value.kind = "undefined" THEN Appended(<<>>)
  ELSE IF key = "labels" /\ TypeofIsObject(value)
    THEN \* Object.entries(null) throws
         IF value.kind = "null" THEN Thrown("TypeError")
         ELSE Appended(LabelParams(value))
  ELSE IF IsArray(value) THEN Appended(ArrayParams(key, value))
  ELSE IF value.kind = "null"
    THEN Appended(<<Param("filter[" \o key \o "]", "null")>>)
  ELSE Appended(<<Param("filter[" \o key \o "]", JsString(value))>>)

\* the callback without its labels branch
getModelConnectionsEntry_NoLabelsBranch(key, value) ==
  IF value.kind = "undefined" THEN Appended(<<>>)
  ELSE IF IsArray(value) THEN Appended(ArrayParams(key, value))
  ELSE IF value.kind = "null"
    THEN Appended(<<Param("filter[" \o key \o "]", "null")>>)
  ELSE Appended(<<Param("filter[" \o key \o "]", JsString(value))>>)

getModelConnectionsEntry(key, value) ==
  IF value.kind = "undefined" THEN Appended(<<>>)
  ELSE IF key = "labels" /\ TypeofIsObject(value)
    THEN IF value.kind = "null" THEN Thrown("TypeError")
         ELSE Appended(LabelParams(value))
  ELSE IF IsArray(value) THEN Appended(ArrayParams(key, value))
  ELSE IF value.kind = "null"
    THEN Appended(<<Param("filter[" \o key \o "]", "null")>>)
  ELSE Appended(<<Param("filter[" \o key \o "]", JsString(value))>>)

\* the forEach callback of the list function fn
EntryOf(fn, key, value) ==
  CASE fn = "getCatalogTechnologies" -> getCatalogTechnologiesEntry(key, value)
    [] fn = "getOrganizationTechnologies" ->
         getOrganizationTechnologiesEntry(key, value)
    [] fn = "getModelObjects" -> getModelObjectsEntry(key, value)
    [] fn = "getModelConnections" -> getModelConnectionsEntry(key, value)

\* the loop with each entry's parameters put before the earlier ones
RECURSIVE ForEachEntry_Prepend(_, _, _)
ForEachEntry_Prepend(fn, entries, params) ==
  IF entries = <<>> THEN Appended(params)
  ELSE LET r == EntryOf(fn, Head(entries)[1], Head(entries)[2])
       IN IF r.error # "none" THEN Thrown(r.error)
          ELSE ForEachEntry_Prepend(fn, Tail(entries), r.params \o params)

\* Object.entries(filter).forEach(...): the entries in enumeration order, each
\* appending to the same params; a throw leaves the loop and the function
RECURSIVE ForEachEntry(_, _, _)
ForEachEntry(fn, entries, params) ==
  IF entries = <<>> THEN Appended(params)
  ELSE LET r == EntryOf(fn, Head(entries)[1], Head(entries)[2])
       IN IF r.error # "none" THEN Thrown(r.error)
          ELSE ForEachEntry(fn, Tail(entries), params \o r.params)

\* an options argument: options.filter is absent, or a filter description
\* given as the sequence of its (key, value) entries in enumeration order
NoFilter == [hasFilter |-> FALSE, filter |-> <<>>]
WithFilter(entries) == [hasFilter |-> TRUE, filter |-> entries]

\* const params = new URLSearchParams(); if (options.filter) {...}
BuildParams(fn, options) ==
  IF options.hasFilter THEN ForEachEntry(fn, options.filter, <<>>)
  ELSE Appended(<<>>)

\* params.toString(): name=value joined by '&'; the empty string when there
\* is no parameter
RECURSIVE QueryString(_)
QueryString(params) ==
  IF params = <<>> THEN <<>>
  ELSE <<Head(params).name, "=", Head(params).value>>
       \o (IF Len(params) > 1 THEN <<"&">> ELSE <<>>)
       \o QueryString(Tail(params))

\* the url with the '?' put in whatever the query string is
UrlOf_AlwaysMark(path, params) == <<path, "?">> \o QueryString(params)

\* `${path}${queryString ? `?${queryString}` : ''}` as the sequence of its parts
UrlOf(path, params) ==
  LET queryString == QueryString(params)
  IN <<path>> \o (IF queryString # <<>> THEN <<"?">> \o queryString ELSE <<>>)

\* the resource path of each list function (identifiers left symbolic)
PathOf(fn) ==
  CASE fn = "getCatalogTechnologies" -> "/catalog/technologies"
    [] fn = "getOrganizationTechnologies" ->
         "/organizations/${organizationId}/technologies"
    [] fn = "getModelObjects" ->
         "/landscapes/${landscapeId}/versions/${versionId}/model/objects"
    [] fn = "getModelConnections" ->
         "/landscapes/${landscapeId}/versions/${versionId}/model/connections"

\* a list function up to its call of apiRequest: the url it requests, or the
\* error thrown while building the parameters (then apiRequest is not called)
ListUrl(fn, built) ==
  IF built.error # "none"
    THEN [error |-> built.error, params |-> <<>>, url |-> <<>>]
    ELSE [error |-> "none", params |-> built.params,
          url |-> UrlOf(PathOf(fn), built.params)]

ListRequest(fn, options) == ListUrl(fn, BuildParams(fn, options))

(***************************************************************************)
(* General JavaScript value helpers used by the tool handlers.             *)
(***************************************************************************)
\* value is truthy
Truthy(value) ==
  CASE value.kind \in {"undefined", "null"} -> FALSE
    [] value.kind = "string" -> value.s # ""
    [] value.kind = "boolean" -> value.b
    [] OTHER -> TRUE

\* object.key : the value of the entry, undefined when the key is absent
\* (callers check first that object is neither null nor undefined)
Get(object, key) ==
  IF object.kind = "object"
       /\ \E i \in 1..Len(object.entries) : object.entries[i][1] = key
    THEN LET i == CHOOSE i \in 1..Len(object.entries) :
                    object.entries[i][1] = key
         IN object.entries[i][2]
    ELSE Undefined

\* reading a property of value throws a TypeError
Nullish(value) == value.kind \in {"undefined", "null"}

(***************************************************************************)
(* The zod schemas declared with server.tool: field types.                 *)
(***************************************************************************)
\* z.string()
ZString == [t |-> "string", len |-> -1]
\* z.string().length(20)
IdLength == 20
ZId == [t |-> "string", len |-> IdLength]
\* z.boolean()
ZBoolean == [t |-> "boolean"]
\* z.enum([...])
ZEnum(vals) == [t |-> "enum", vals |-> vals]
\* z.array(of)
ZArray(of) == [t |-> "array", of |-> of]
\* z.union([a, b])
ZUnion(a, b) == [t |-> "union", a |-> a, b |-> b]
\* z.union([x, z.array(x)])
ZOneOrMany(x) == ZUnion(x, ZArray(x))

StatusEnum == ZEnum({"deprecated", "future", "live", "removed"})
ObjectTypeEnum ==
  ZEnum({"actor", "app", "component", "group", "root", "store", "system"})
CreateTypeEnum == ZEnum({"actor", "app", "component", "group", "store", "system"})
ProviderEnum ==
  ZEnum({"aws", "azure", "gcp", "microsoft", "salesforce", "atlassian",
         "apache", "supabase"})
TechTypeEnum ==
  ZEnum({"data-storage", "deployment", "framework-library", "gateway", "other",
         "language", "message-broker", "network", "protocol", "runtime",
         "service-tool"})
RestrictionEnum ==
  ZEnum({"actor", "app", "component", "connection", "group", "store", "system"})
ViewTypeEnum == ZEnum({"landscape", "context", "container", "component"})

\* one declared field: required, .optional(), .nullable(), .default(value)
Req(name, type) ==
  [name |-> name, type |-> type, optional |-> FALSE, nullable |-> FALSE,
   hasDefault |-> FALSE, default |-> Undefined]
Opt(name, type) ==
  [name |-> name, type |-> type, optional |-> TRUE, nullable |-> FALSE,
   hasDefault |-> FALSE, default |-> Undefined]
OptNullable(name, type) ==
  [name |-> name, type |-> type, optional |-> TRUE, nullable |-> TRUE,
   hasDefault |-> FALSE, default |-> Undefined]
\* a field declared .optional() only: nothing is filled in when it is absent
Default_Optional(name, type, value) ==
  [name |-> name, type |-> type, optional |-> TRUE, nullable |-> FALSE,
   hasDefault |-> FALSE, default |-> Undefined]

Default(name, type, value) ==
  [name |-> name, type |-> type, optional |-> TRUE, nullable |-> FALSE,
   hasDefault |-> TRUE, default |-> value]

\* the tools registered by main.ts
Tools ==
  {"getLandscapes", "getLandscape", "getModelObjects", "getModelObject",
   "getModelObjectRelationships", "getTechnologyCatalog", "getTeams",
   "createLandscape", "createModelObject", "createModelConnection",
   "createDomain", "verifyLandscape", "createTestSystem", "getDiagrams",
   "getDiagram", "createDiagram", "createDiagramWithObjects", "updateDiagram",
   "deleteDiagram", "addObjectsToDiagram"}

\* the schema each tool is registered with, fields in declaration order
Schema(tool) ==
  CASE tool = "getLandscapes" -> <<>>
    [] tool = "getLandscape" -> <<Req("landscapeId", ZString)>>
    [] tool = "getModelObjects" ->
         <<Req("landscapeId", ZId),
           Opt("domainId", ZOneOrMany(ZId)),
           Default("external", ZBoolean, Bool(FALSE)),
           Opt("name", ZString),
           OptNullable("parentId", ZString),
           Opt("status", ZOneOrMany(StatusEnum)),
           Opt("type", ZOneOrMany(ObjectTypeEnum)),
           Opt("technologyId", ZOneOrMany(ZId)),
           Opt("teamId", ZOneOrMany(ZId)),
           Opt("search", ZString)>>
    [] tool = "getModelObject" ->
         <<Req("landscapeId", ZId), Req("modelObjectId", ZId),
           Default("includeHierarchicalInfo", ZBoolean, Bool(FALSE))>>
    [] tool = "getModelObjectRelationships" ->
         <<Req("landscapeId", ZId), Req("modelObjectId", ZId)>>
    [] tool = "getTechnologyCatalog" ->
         <<OptNullable("provider", ZOneOrMany(ProviderEnum)),
           OptNullable("type", ZOneOrMany(TechTypeEnum)),
           Opt("restrictions", ZOneOrMany(RestrictionEnum)),
           Req("search", ZString)>>
    [] tool = "getTeams" -> <<Opt("search", ZString)>>
    [] tool = "createLandscape" ->
         <<Req("name", ZString), Opt("description", ZString),
           Opt("icon", ZString),
           Default("visibility", ZEnum({"private", "public"}), Str("private"))>>
    [] tool = "createModelObject" ->
         <<Req("landscapeId", ZString), Req("name", ZString),
           Req("type", CreateTypeEnum), Opt("parentId", ZString),
           Opt("description", ZString), Opt("domainId", ZString),
           Default("external", ZBoolean, Bool(FALSE)),
           Default("status", StatusEnum, Str("live")),
           Opt("technologyId", ZString), Opt("teamId", ZString)>>
    [] tool = "createModelConnection" ->
         <<Req("landscapeId", ZString), Req("name", ZString),
           Req("originId", ZString), Req("targetId", ZString),
           Opt("description", ZString),
           Default("direction", ZEnum({"outgoing", "bidirectional"}),
                   Str("outgoing")),
           Default("status", StatusEnum, Str("live"))>>
    [] tool = "createDomain" ->
         <<Req("landscapeId", ZString), Req("name", ZString),
           Opt("description", ZString), Opt("color", ZString)>>
    [] tool = "verifyLandscape" -> <<Req("landscapeId", ZString)>>
    [] tool = "createTestSystem" -> <<Req("landscapeId", ZString)>>
    [] tool = "getDiagrams" -> <<Req("landscapeId", ZString)>>
    [] tool = "getDiagram" ->
         <<Req("landscapeId", ZString), Req("diagramId", ZString)>>
    [] tool = "createDiagram" ->
         <<Req("landscapeId", ZString), Req("name", ZString),
           Req("viewType", ViewTypeEnum), Opt("description", ZString),
           Opt("rootObjectId", ZString), Opt("objectIds", ZArray(ZString))>>
    [] tool = "createDiagramWithObjects" ->
         <<Req("landscapeId", ZString), Req("name", ZString),
           Req("viewType", ViewTypeEnum), Opt("description", ZString),
           Opt("rootObjectId", ZString), Req("objectIds", ZArray(ZString))>>
    [] tool = "updateDiagram" ->
         <<Req("landscapeId", ZString), Req("diagramId", ZString),
           Opt("name", ZString), Opt("viewType", ViewTypeEnum),
           Opt("description", ZString), Opt("rootObjectId", ZString),
           Opt("objectIds", ZArray(ZString))>>
    [] tool = "deleteDiagram" ->
         <<Req("landscapeId", ZString), Req("diagramId", ZString)>>
    [] tool = "addObjectsToDiagram" ->
         <<Req("landscapeId", ZString), Req("diagramId", ZString),
           Req("objectIds", ZArray(ZString))>>

\* a value satisfies a declared type
RECURSIVE Accepts(_, _)
Accepts(type, value) ==
  CASE type.t = "string" ->
         value.kind = "string" /\ (type.len = -1 \/ Len(value.s) = type.len)
    [] type.t = "boolean" -> value.kind = "boolean"
    [] type.t = "enum" -> value.kind = "string" /\ value.s \in type.vals
    [] type.t = "array" ->
         value.kind = "array"
           /\ \A i \in 1..Len(value.items) : Accepts(type.of, value.items[i])
    [] type.t = "union" -> Accepts(type.a, value) \/ Accepts(type.b, value)

\* an argument record is a function from the names it carries to values
FieldAccepts(field, args) ==
  IF field.name \notin DOMAIN args
    THEN field.optional
    ELSE (field.nullable /\ args[field.name].kind = "null")
           \/ Accepts(field.type, args[field.name])

\* the argument record satisfies the tool's schema
SchemaAccepts(tool, args) ==
  \A i \in 1..Len(Schema(tool)) : FieldAccepts(Schema(tool)[i], args)

\* the parsed arguments handed to the handler: the declared fields that are
\* present, in declaration order, with defaults filled in (undeclared keys
\* are dropped)
RECURSIVE ParseFields(_, _)
ParseFields(fields, args) ==
  IF fields = <<>> THEN <<>>
  ELSE LET f == Head(fields)
       IN (IF f.name \in DOMAIN args THEN <<<<f.name, args[f.name]>>>>
           ELSE IF f.hasDefault THEN <<<<f.name, f.default>>>>
           ELSE <<>>)
          \o ParseFields(Tail(fields), args)

Parse(tool, args) == Obj(ParseFields(Schema(tool), args))

(***************************************************************************)
(* Texts.  A text is the sequence of the parts a template literal or a     *)
(* chain of += concatenates; JSON.stringify yields one part.               *)
(***************************************************************************)
\* JSON.stringify(value) (indentation left out); entries whose value is
\* undefined are dropped from objects
RECURSIVE Stringify(_)
RECURSIVE StringifyItems(_)
RECURSIVE StringifyEntries(_)
StringifyItems(items) ==
  IF items = <<>> THEN ""
  ELSE Stringify(Head(items))
       \o (IF Len(items) > 1 THEN "," ELSE "") \o StringifyItems(Tail(items))
StringifyEntries(entries) ==
  IF entries = <<>> THEN ""
  ELSE "\"" \o Head(entries)[1] \o "\":" \o Stringify(Head(entries)[2])
       \o (IF Len(entries) > 1 THEN "," ELSE "")
       \o StringifyEntries(Tail(entries))
Stringify(value) ==
  CASE value.kind = "string" -> "\"" \o value.s \o "\""
    [] value.kind = "boolean" -> (IF value.b THEN "true" ELSE "false")
    [] value.kind = "null" -> "null"
    [] value.kind = "undefined" -> "undefined"
    [] value.kind = "array" -> "[" \o StringifyItems(value.items) \o "]"
    [] value.kind = "object" ->
         "{" \o StringifyEntries(
                  SelectSeq(value.entries, LAMBDA e : e[2].kind # "undefined"))
             \o "}"

\* a content block { type: "text", text }
TextBlock(text) == [type |-> "text", text |-> text]

\* array.length as a decimal string
LengthString(items) == ToString(Len(items))

\* the elements as they are, repeated ones included: Array.from(items)
Dedupe_KeepAll(items) == items

\* first occurrence of each element, in order: Array.from(new Set(items))
RECURSIVE Dedupe(_)
Dedupe(items) ==
  IF items = <<>> THEN <<>>
  ELSE LET rest == Dedupe(SubSeq(items, 1, Len(items) - 1))
           last == items[Len(items)]
       IN IF \E i \in 1..Len(rest) : rest[i] = last THEN rest
          ELSE Append(rest, last)

\* the concatenation of a sequence of texts, each followed by separator
\* except the last: array.map(...).join(separator)
RECURSIVE JoinTexts(_, _)
JoinTexts(texts, separator) ==
  IF texts = <<>> THEN <<>>
  ELSE Head(texts)
       \o (IF Len(texts) > 1 THEN <<separator>> ELSE <<>>)
       \o JoinTexts(Tail(texts), separator)

\* if (record.field) formatString += `${label}${record.field}\n`
Line(label, value) ==
  IF Truthy(value) THEN <<label, JsString(value), "\n">> ELSE <<>>

(***************************************************************************)
(* format.ts                                                               *)
(***************************************************************************)
\* const maxLength = 150
maxLength == 150

\* the greatest index of a set of indices, -1 when there is none
Greatest(indices) ==
  IF indices = {} THEN -1
  ELSE CHOOSE i \in indices : \A j \in indices : j <= i

\* string.lastIndexOf(ch, fromIndex): the greatest index i <= fromIndex (from
\* 0) at which the string has ch, or -1
LastIndexOf(string, ch, fromIndex) ==
  Greatest({i \in 0..fromIndex :
              i < Len(string) /\ SubSeq(string, i + 1, i + 1) = ch})

\* string.slice(0, end) for end >= 0
Slice(string, end) ==
  SubSeq(string, 1, IF end < Len(string) THEN end ELSE Len(string))

\* the end of the slice, cutting at the space of index 0 as well
SliceEnd_FromZero(lastSpaceIndex) ==
  IF lastSpaceIndex >= 0 THEN lastSpaceIndex ELSE maxLength

\* lastSpaceIndex > 0 ? lastSpaceIndex : maxLength
SliceEnd(lastSpaceIndex) ==
  IF lastSpaceIndex > 0 THEN lastSpaceIndex ELSE maxLength

\* the description as the list item shows it: cut at the last space at or
\* before maxLength when it is longer than maxLength
truncatedDescription(description) ==
  IF description.kind = "string" /\ Len(description.s) > maxLength
    THEN Slice(description.s,
               SliceEnd(LastIndexOf(description.s, " ", maxLength)))
    ELSE JsString(description)

formatModelObjectListItem(landscapeId, modelObject) ==
  Line("# ", Get(modelObject, "name"))
    \o Line("- ID: ", Get(modelObject, "id"))
    \o Line("- Name: ", Get(modelObject, "name"))
    \o (IF Truthy(Get(modelObject, "description"))
          THEN <<"- Description: \n",
                 truncatedDescription(Get(modelObject, "description")),
                 "...\n">>
          ELSE <<>>)
    \o Line("- Type: ", Get(modelObject, "type"))
    \o (IF Get(modelObject, "external").kind # "undefined"
          THEN <<"- External: ", JsString(Get(modelObject, "external")), "\n">>
          ELSE <<>>)
    \o Line("- Status: ", Get(modelObject, "status"))

formatModelObjectRelatedItem(modelObject) ==
  Line("##### ", Get(modelObject, "name"))
    \o Line("- ID: ", Get(modelObject, "id"))
    \o Line("- Name: ", Get(modelObject, "name"))
    \o Line("- Type: ", Get(modelObject, "type"))
    \o Line("- Status: ", Get(modelObject, "status"))

formatTeam(team) ==
  Line("# ", Get(team, "name"))
    \o Line("- ID: ", Get(team, "id"))
    \o Line("- Name: ", Get(team, "name"))
    \o (IF Get(team, "userIds").kind = "array"
             /\ Len(Get(team, "userIds").items) > 0
          THEN <<"- Team size: ", LengthString(Get(team, "userIds").items), "\n">>
          ELSE <<>>)

formatCatalogTechnology(technology) ==
  <<"# ", JsString(Get(technology, "name")), "\n\n",
    "- Name: ", JsString(Get(technology, "name")), "\n",
    "- ID: ", JsString(Get(technology, "id")), "\n">>
    \o Line("- Short Name: ", Get(technology, "nameShort"))
    \o Line("- Description: ", Get(technology, "description"))
    \o (IF Truthy(Get(technology, "docsUrl"))
          THEN <<"- Documentation: ", "[Docs](",
                 JsString(Get(technology, "docsUrl")), ")", "\n">>
          ELSE <<>>)
    \o (IF Truthy(Get(technology, "websiteUrl"))
          THEN <<"- Website: ", "[Website](",
                 JsString(Get(technology, "websiteUrl")), ")", "\n">>
          ELSE <<>>)
    \o Line("- Status: ", Get(technology, "status"))
    \o Line("- Type: ", Get(technology, "type"))
    \o Line("- Provider: ", Get(technology, "provider"))
    \o Line("- Category: ", Get(technology, "category"))
    \o Line("- Slug: ", Get(technology, "defaultSlug"))

\* the first record whatever its id
FindById_Head(records, id) ==
  IF records = <<>> THEN Undefined ELSE records[1]

\* array.find(o => o.id === id): the first record with that id, or undefined
FindById(records, id) ==
  IF \E i \in 1..Len(records) : Get(records[i], "id") = id
    THEN records[CHOOSE i \in 1..Len(records) :
                   /\ Get(records[i], "id") = id
                   /\ \A j \in 1..(i - 1) : Get(records[j], "id") # id]
    ELSE Undefined

\* the items of an array value; no items for anything else
Items(value) == IF value.kind = "array" THEN value.items ELSE <<>>

\* Object.values(object)
ObjectValues(object) ==
  IF object.kind = "object"
    THEN [i \in 1..Len(object.entries) |-> object.entries[i][2]]
    ELSE <<>>

\* modelObjectUrl(landscapeId, handleId) with BASE_PATH
modelObjectUrl(landscapeId, handleId) ==
  <<"${BASE_PATH}", "/landscapes/", JsString(landscapeId),
    "/versions/latest/model/objects?object_tab=details&object=",
    JsString(handleId)>>

\* the markdown code fence (three backquotes) around a description
CodeFence == "[code fence]"

\* formatModelObjectItem reads a property of undefined or null, or calls a
\* method of undefined
formatModelObjectItemThrows(modelObject, teams, parentObject, childObjects) ==
  \/ Nullish(modelObject)
  \/ /\ Get(modelObject, "teamIds").kind = "array"
     /\ Len(Get(modelObject, "teamIds").items) > 0
     /\ teams.kind # "array"
  \/ /\ Truthy(Get(modelObject, "technologies"))
     /\ \E i \in 1..Len(ObjectValues(Get(modelObject, "technologies"))) :
          Nullish(ObjectValues(Get(modelObject, "technologies"))[i])

formatModelObjectItem(landscapeId, modelObject, teams, parentObject, childObjects) ==
  LET technologies == ObjectValues(Get(modelObject, "technologies"))
      teamIds == Items(Get(modelObject, "teamIds"))
      teamNames ==
        SelectSeq([i \in 1..Len(teamIds) |->
                     Get(FindById(Items(teams), teamIds[i]), "name")],
                  Truthy)
  IN Line("# ", Get(modelObject, "name"))
       \o Line("- ID: ", Get(modelObject, "id"))
       \o Line("- Name: ", Get(modelObject, "name"))
       \o <<"- View in IcePanel: ">>
       \o modelObjectUrl(landscapeId, Get(modelObject, "handleId")) \o <<"\n">>
       \o (IF Truthy(Get(modelObject, "description"))
             THEN <<"- Description:\n", CodeFence, "\n",
                    JsString(Get(modelObject, "description")), "\n",
                    CodeFence, "\n">>
             ELSE <<>>)
       \o Line("- Type: ", Get(modelObject, "type"))
       \o (IF Get(modelObject, "external").kind # "undefined"
             THEN <<"- External: ", JsString(Get(modelObject, "external")), "\n">>
             ELSE <<>>)
       \o Line("- Status: ", Get(modelObject, "status"))
       \o (IF Truthy(Get(modelObject, "technologies")) /\ Len(technologies) > 0
             THEN <<"- Technologies: ">>
                  \o JoinTexts([i \in 1..Len(technologies) |->
                                  <<JsString(Get(technologies[i], "name"))>>],
                               ", ")
                  \o <<"\n">>
             ELSE <<>>)
       \o (IF Len(teamIds) > 0
             THEN <<"- Teams: ">>
                  \o JoinTexts([i \in 1..Len(teamNames) |->
                                  <<JsString(teamNames[i])>>], ", ")
                  \o <<"\n">>
             ELSE <<>>)
       \o (IF Truthy(parentObject)
             THEN <<"### Parent Object\n\n">>
                  \o formatModelObjectRelatedItem(parentObject) \o <<"\n\n">>
             ELSE <<>>)
       \o (IF Truthy(childObjects)
             THEN <<"### Child Objects\n\n">>
                  \o JoinTexts([i \in 1..Len(Items(childObjects)) |->
                                  formatModelObjectRelatedItem(
                                    Items(childObjects)[i])], "\n\n")
             ELSE <<>>)

\* formatConnections reads .length of something that is not an array, a
\* property of a missing model object, or calls find on a non-array
formatConnectionsThrows(modelObject, incomingConnections, outgoingConnections, modelObjects) ==
  \/ Nullish(modelObject)
  \/ Nullish(incomingConnections)
  \/ Nullish(outgoingConnections)
  \/ /\ Len(Items(incomingConnections)) > 0
     /\ modelObjects.kind # "array"

\* one line of a connection section: the empty text when the connected model
\* object is not in the collection
ConnectionLine(modelObject, c, connectedModel, incoming) ==
  IF ~Truthy(connectedModel) THEN <<>>
  ELSE IF incoming
    THEN <<JsString(Get(connectedModel, "name")), " (",
           JsString(Get(connectedModel, "type")), ") -[",
           JsString(Get(c, "name")), "]-> ",
           JsString(Get(modelObject, "name")), " (",
           JsString(Get(modelObject, "type")), ")">>
    ELSE <<JsString(Get(modelObject, "name")), " (",
           JsString(Get(modelObject, "type")), ") -[",
           JsString(Get(c, "name")), "]-> ",
           JsString(Get(connectedModel, "name")), " (",
           JsString(Get(connectedModel, "type")), ")">>

formatConnections(modelObject, incomingConnections, outgoingConnections, modelObjects) ==
  LET inc == Items(incomingConnections)
      out == Items(outgoingConnections)
      objs == Items(modelObjects)
      origins == [i \in 1..Len(inc) |-> FindById(objs, Get(inc[i], "originId"))]
      \* the outgoing section maps over incomingConnections
      targets == [i \in 1..Len(inc) |-> FindById(objs, Get(inc[i], "targetId"))]
      referencedModels ==
        (IF Len(inc) > 0 THEN SelectSeq(origins, Truthy) ELSE <<>>)
          \o (IF Len(out) > 0 THEN SelectSeq(targets, Truthy) ELSE <<>>)
  IN <<"# ", JsString(Get(modelObject, "name")), " - Connections\n\n">>
       \o (IF Len(inc) = 0 /\ Len(out) = 0
             THEN <<"No connections found.\n">> ELSE <<>>)
       \o (IF Len(inc) > 0
             THEN <<"### Incoming connections\n">>
                  \o JoinTexts([i \in 1..Len(inc) |->
                                  ConnectionLine(modelObject, inc[i],
                                                 origins[i], TRUE)], "\n")
             ELSE <<>>)
       \o (IF Len(out) > 0
             THEN <<"### Outgoing connections\n">>
                  \o JoinTexts([i \in 1..Len(inc) |->
                                  ConnectionLine(modelObject, inc[i],
                                                 targets[i], FALSE)], "\n")
             ELSE <<>>)
       \o (IF Len(referencedModels) > 0
             THEN <<"### Referenced Model Objects">>
                  \o JoinTexts([i \in 1..Len(referencedModels) |->
                                  formatModelObjectRelatedItem(
                                    referencedModels[i])], "\n")
             ELSE <<>>)

(***************************************************************************)
(* Fuse search as the tools use it: new Fuse(docs, {keys, threshold})      *)
(* .search(query).map(r => r.item).  Scores are in tenths (0 = exact).     *)
(***************************************************************************)
FuseThreshold == 3

\* pairs (text, query) the approximate matcher scores as close but not exact
NearMatches == {<<"Api", "Apo">>, <<"Core", "Cor">>, <<"Kafka", "Kafk">>}

FuseFieldScore(value, query) ==
  IF value.kind # "string" THEN 10
  ELSE IF value.s = query THEN 0
  ELSE IF <<value.s, query>> \in NearMatches THEN 2
  ELSE 10

\* best score of a document over the searched keys
FuseScore(doc, keys, query) ==
  IF Nullish(doc) THEN 10
  ELSE IF \E k \in keys : FuseFieldScore(Get(doc, k), query) = 0 THEN 0
  ELSE IF \E k \in keys : FuseFieldScore(Get(doc, k), query) = 2 THEN 2
  ELSE 10

\* the documents within the threshold, left in input order
FuseSearch_InputOrder(docs, keys, query) ==
  SelectSeq(docs, LAMBDA d : FuseScore(d, keys, query) <= FuseThreshold)

\* the documents within the threshold, best score first (ties in input order)
FuseSearch(docs, keys, query) ==
  SelectSeq(docs, LAMBDA d : FuseScore(d, keys, query) = 0)
    \o SelectSeq(docs, LAMBDA d : FuseScore(d, keys, query) > 0
                                    /\ FuseScore(d, keys, query) <= FuseThreshold)

(***************************************************************************)
(* icepanel.ts: the request each API function hands to apiRequest.         *)
(***************************************************************************)
\* ORGANIZATION_ID as it appears in a path
OrgId == "${ORGANIZATION_ID}"

Request(fn, method, url, body) ==
  [fn |-> fn, method |-> method, url |-> url, body |-> body]

\* no request body
NoBody == ""

\* an object literal { k1: v1, ... }
Literal(entries) == Obj(entries)

icepanel_getLandscapes(organizationId) ==
  Request("getLandscapes", "GET",
          <<"/organizations/", organizationId, "/landscapes">>, NoBody)

icepanel_getLandscape(organizationId, landscapeId) ==
  Request("getLandscape", "GET",
          <<"/organizations/", organizationId, "/landscapes/",
            JsString(landscapeId)>>, NoBody)

icepanel_createLandscape(organizationId, data) ==
  Request("createLandscape", "POST",
          <<"/organizations/", organizationId, "/landscapes">>, Stringify(data))

icepanel_getTeams(organizationId) ==
  Request("getTeams", "GET",
          <<"/organizations/", organizationId, "/teams">>, NoBody)

\* the list functions: the request, or the error thrown before any request
ListCall(fn, r) ==
  [error |-> r.error, request |-> Request(fn, "GET", r.url, NoBody)]

icepanel_list(fn, options) == ListCall(fn, ListRequest(fn, options))

icepanel_getModelObject(landscapeId, modelObjectId) ==
  Request("getModelObject", "GET",
          <<"/landscapes/", JsString(landscapeId), "/versions/", "latest",
            "/model/objects/", JsString(modelObjectId)>>, NoBody)

icepanel_createModelObject(landscapeId, data) ==
  Request("createModelObject", "POST",
          <<"/landscapes/", JsString(landscapeId), "/versions/", "latest",
            "/model/objects">>, Stringify(data))

icepanel_createModelConnection(landscapeId, data) ==
  Request("createModelConnection", "POST",
          <<"/landscapes/", JsString(landscapeId), "/versions/", "latest",
            "/model/connections">>, Stringify(data))

icepanel_createDomain(landscapeId, data) ==
  Request("createDomain", "POST",
          <<"/landscapes/", JsString(landscapeId), "/versions/", "latest",
            "/domains">>, Stringify(data))

icepanel_getDiagrams(landscapeId) ==
  Request("getDiagrams", "GET",
          <<"/landscapes/", JsString(landscapeId), "/versions/", "latest",
            "/diagrams">>, NoBody)

icepanel_getDiagram(landscapeId, diagramId) ==
  Request("getDiagram", "GET",
          <<"/landscapes/", JsString(landscapeId), "/versions/", "latest",
            "/diagrams/", JsString(diagramId)>>, NoBody)

\* obj with the entry for key replaced (or added at the end)
With(obj, key, value) ==
  IF \E i \in 1..Len(obj.entries) : obj.entries[i][1] = key
    THEN Obj([i \in 1..Len(obj.entries) |->
                IF obj.entries[i][1] = key THEN <<key, value>>
                ELSE obj.entries[i]])
    ELSE Obj(Append(obj.entries, <<key, value>>))

\* createDiagram: requestData.objectIds is made an array before the POST
icepanel_createDiagram(landscapeId, data) ==
  LET objectIds == Get(data, "objectIds")
      requestData ==
        IF ~Truthy(objectIds) THEN With(data, "objectIds", Arr(<<>>))
        ELSE IF ~IsArray(objectIds)
          THEN With(data, "objectIds", Arr(<<objectIds>>))
        ELSE data
  IN Request("createDiagram", "POST",
             <<"/landscapes/", JsString(landscapeId), "/versions/", "latest",
               "/diagrams">>, Stringify(requestData))

\* updateDiagram: the PATCH body is the data given, objectIds made an array
\* when it is supplied and is not one
icepanel_updateDiagram(landscapeId, diagramId, data) ==
  LET objectIds == Get(data, "objectIds")
      requestData ==
        IF objectIds.kind # "undefined" /\ ~IsArray(objectIds)
          THEN With(data, "objectIds", Arr(<<objectIds>>))
          ELSE data
  IN Request("updateDiagram", "PATCH",
             <<"/landscapes/", JsString(landscapeId), "/versions/", "latest",
               "/diagrams/", JsString(diagramId)>>, Stringify(requestData))

icepanel_deleteDiagram(landscapeId, diagramId) ==
  Request("deleteDiagram", "DELETE",
          <<"/landscapes/", JsString(landscapeId), "/versions/", "latest",
            "/diagrams/", JsString(diagramId)>>, NoBody)

\* what an API function does with the parsed response before returning it:
\* createDiagram and updateDiagram read response.diagram (a TypeError on a
\* null response) and add an empty objectIds to a diagram that has none
ApiReturn(fn, response) ==
  IF fn \in {"createDiagram", "updateDiagram"}
    THEN IF Nullish(response) THEN [error |-> "TypeError", value |-> Undefined]
         ELSE IF Truthy(Get(response, "diagram"))
                   /\ Get(response, "diagram").kind = "object"
                   /\ ~Truthy(Get(Get(response, "diagram"), "objectIds"))
           THEN [error |-> "none",
                 value |-> With(response, "diagram",
                                With(Get(response, "diagram"), "objectIds",
                                     Arr(<<>>)))]
         ELSE [error |-> "none", value |-> response]
    ELSE [error |-> "none", value |-> response]

(***************************************************************************)
(* main.ts: the tool handlers.  A handler is a function of its parsed      *)
(* arguments and of the values its remote calls returned so far (vals); it *)
(* yields the next thing the handler does: await a remote call, return a   *)
(* content, or throw inside its try block.                                 *)
(***************************************************************************)
Call(request) == [kind |-> "call", request |-> request]
Return(content) == [kind |-> "return", content |-> content]
Throw(message) == [kind |-> "throw", message |-> message]

\* messages of the errors thrown
TypeErrorMessage == <<"TypeError: cannot read properties of undefined or null">>
FetchFailedMessage == <<"fetch failed">>
JsonSyntaxMessage == <<"SyntaxError: the body is not valid JSON">>
NoDiagramIdMessage == <<"Failed to get diagram ID from response">>
ObjectIdsMessage == <<"objectIds must be a non-empty array of strings">>

\* await of a list function: the call, or the throw of its encoder
CallOrThrow(r) ==
  IF r.error # "none" THEN Throw(TypeErrorMessage) ELSE Call(r.request)

CallList(fn, options) == CallOrThrow(icepanel_list(fn, options))

\* array.map(record => ({type: "text", text: format(record)})) : a TypeError
\* when array is not an array or a record is missing
MapBlocks(array, Format(_)) ==
  IF array.kind # "array" \/ \E i \in 1..Len(Items(array)) : Nullish(array.items[i])
    THEN Throw(TypeErrorMessage)
    ELSE Return([i \in 1..Len(array.items) |-> TextBlock(Format(array.items[i]))])

\* JSON.stringify(value, null, 2) as the single text block of a result
ReturnJson(value) == Return(<<TextBlock(<<Stringify(value)>>)>>)

\* the entries of the parsed arguments other than landscapeId: ...filters
RestOf(args, key) == SelectSeq(args.entries, LAMBDA e : e[1] # key)

tool_getLandscapes(args, vals) ==
  IF Len(vals) = 0 THEN Call(icepanel_getLandscapes(OrgId))
  ELSE ReturnJson(vals[1])

tool_getLandscape(args, vals) ==
  IF Len(vals) = 0
    THEN Call(icepanel_getLandscape(OrgId, Get(args, "landscapeId")))
    ELSE ReturnJson(vals[1])

\* getModelObjects with the records rendered into one text block
tool_getModelObjects_OneBlock(args, vals) ==
  IF Len(vals) = 0
    THEN CallList("getModelObjects", WithFilter(RestOf(args, "landscapeId")))
  ELSE IF Nullish(vals[1]) \/ ~IsArray(Get(vals[1], "modelObjects"))
    THEN Throw(TypeErrorMessage)
  ELSE Return(<<TextBlock(JoinTexts(
         [i \in 1..Len(Get(vals[1], "modelObjects").items) |->
            formatModelObjectListItem(Get(args, "landscapeId"),
                                      Get(vals[1], "modelObjects").items[i])],
         "\n"))>>)

tool_getModelObjects(args, vals) ==
  LET landscapeId == Get(args, "landscapeId")
      filters == RestOf(args, "landscapeId")
      search == Get(args, "search")
  IN IF Len(vals) = 0
       THEN CallList("getModelObjects", WithFilter(filters))
     ELSE IF Nullish(vals[1]) THEN Throw(TypeErrorMessage)
     ELSE LET fetched == Get(vals[1], "modelObjects")
              modelObjects ==
                IF Truthy(search) /\ fetched.kind = "array"
                  THEN Arr(FuseSearch(fetched.items, {"name", "description"},
                                      search.s))
                  ELSE fetched
          IN MapBlocks(modelObjects,
                       LAMBDA o : formatModelObjectListItem(landscapeId, o))

\* getModelObject without the fetch of the full collection
tool_getModelObject_NoCollection(args, vals) ==
  IF Len(vals) = 0
    THEN Call(icepanel_getModelObject(Get(args, "landscapeId"),
                                      Get(args, "modelObjectId")))
  ELSE IF Len(vals) = 1 THEN Call(icepanel_getTeams(OrgId))
  ELSE IF Nullish(vals[1]) \/ Nullish(vals[2])
            \/ formatModelObjectItemThrows(Get(vals[1], "modelObject"),
                                           Get(vals[2], "teams"),
                                           Undefined, Undefined)
    THEN Throw(TypeErrorMessage)
  ELSE Return(<<TextBlock(
         formatModelObjectItem(Get(args, "landscapeId"),
                               Get(vals[1], "modelObject"),
                               Get(vals[2], "teams"), Undefined, Undefined))>>)

tool_getModelObject(args, vals) ==
  LET landscapeId == Get(args, "landscapeId")
      modelObjectId == Get(args, "modelObjectId")
      includeHierarchicalInfo == Get(args, "includeHierarchicalInfo")
      result == vals[1]
      teamResult == vals[2]
      modelObject == Get(result, "modelObject")
      Finish(parentObject, childObjects) ==
        IF Nullish(teamResult)
             \/ formatModelObjectItemThrows(modelObject, Get(teamResult, "teams"),
                                            parentObject, childObjects)
          THEN Throw(TypeErrorMessage)
          ELSE Return(<<TextBlock(
                 formatModelObjectItem(landscapeId, modelObject,
                                       Get(teamResult, "teams"),
                                       parentObject, childObjects))>>)
  IN IF Len(vals) = 0
       THEN Call(icepanel_getModelObject(landscapeId, modelObjectId))
     ELSE IF Len(vals) = 1 THEN Call(icepanel_getTeams(OrgId))
     ELSE IF Nullish(result) THEN Throw(TypeErrorMessage)
     ELSE IF ~Truthy(includeHierarchicalInfo) THEN Finish(Undefined, Undefined)
     ELSE IF Len(vals) = 2 THEN CallList("getModelObjects", NoFilter)
     ELSE IF Nullish(vals[3]) \/ Nullish(modelObject)
       THEN Throw(TypeErrorMessage)
     ELSE LET modelObjectList == Get(vals[3], "modelObjects")
              parentId == Get(modelObject, "parentId")
              childIds == Get(modelObject, "childIds")
              wantParent == Truthy(parentId) /\ parentId # Str("root")
              wantChildren == Len(Items(childIds)) > 0
          IN IF (wantParent /\ modelObjectList.kind # "array")
                  \/ childIds.kind # "array"
                  \/ (wantChildren /\ modelObjectList.kind # "array")
               THEN Throw(TypeErrorMessage)
               ELSE Finish(
                      IF wantParent
                        THEN FindById(modelObjectList.items, parentId)
                        ELSE Undefined,
                      IF wantChildren
                        THEN Arr(SelectSeq(modelObjectList.items,
                               LAMBDA o : \E i \in 1..Len(childIds.items) :
                                            childIds.items[i] = Get(o, "id")))
                        ELSE Undefined)

\* getModelObjectRelationships asking for the connections by targetId before
\* those by originId
tool_getModelObjectRelationships_TargetFirst(args, vals) ==
  IF Len(vals) = 2
    THEN CallList("getModelConnections",
                  WithFilter(<<<<"targetId", Get(args, "modelObjectId")>>>>))
  ELSE IF Len(vals) = 3
    THEN CallList("getModelConnections",
                  WithFilter(<<<<"originId", Get(args, "modelObjectId")>>>>))
  ELSE IF Len(vals) = 0
    THEN Call(icepanel_getModelObject(Get(args, "landscapeId"),
                                      Get(args, "modelObjectId")))
  ELSE IF Len(vals) = 1 THEN CallList("getModelObjects", NoFilter)
  ELSE Return(<<TextBlock(<<"# ", " - Connections\n\n">>)>>)

tool_getModelObjectRelationships(args, vals) ==
  LET landscapeId == Get(args, "landscapeId")
      modelObjectId == Get(args, "modelObjectId")
  IN IF Len(vals) = 0
       THEN Call(icepanel_getModelObject(landscapeId, modelObjectId))
     ELSE IF Len(vals) = 1 THEN CallList("getModelObjects", NoFilter)
     ELSE IF Len(vals) = 2
       THEN CallList("getModelConnections",
                     WithFilter(<<<<"originId", modelObjectId>>>>))
     ELSE IF Len(vals) = 3
       THEN CallList("getModelConnections",
                     WithFilter(<<<<"targetId", modelObjectId>>>>))
     ELSE IF \E i \in 1..4 : Nullish(vals[i]) THEN Throw(TypeErrorMessage)
     ELSE LET modelObject == Get(vals[1], "modelObject")
              modelObjects == Get(vals[2], "modelObjects")
              outgoing == Get(vals[3], "modelConnections")
              incoming == Get(vals[4], "modelConnections")
          IN IF formatConnectionsThrows(modelObject, incoming, outgoing,
                                        modelObjects)
               THEN Throw(TypeErrorMessage)
               ELSE Return(<<TextBlock(
                      formatConnections(modelObject, incoming, outgoing,
                                        modelObjects))>>)

tool_getTechnologyCatalog(args, vals) ==
  LET provider == Get(args, "provider")
      type == Get(args, "type")
      restrictions == Get(args, "restrictions")
      search == Get(args, "search")
  IN IF Len(vals) = 0
       THEN CallList("getCatalogTechnologies",
                     WithFilter(<<<<"provider", provider>>, <<"type", type>>,
                                  <<"restrictions", restrictions>>,
                                  <<"status", Str("approved")>>>>))
     ELSE IF Len(vals) = 1
       THEN CallList("getOrganizationTechnologies",
                     WithFilter(<<<<"provider", provider>>, <<"type", type>>,
                                  <<"restrictions", restrictions>>>>))
     ELSE IF Nullish(vals[1]) \/ Nullish(vals[2])
               \/ Get(vals[1], "catalogTechnologies").kind # "array"
       THEN Throw(TypeErrorMessage)
     ELSE LET second == Get(vals[2], "catalogTechnologies")
              \* array.concat(x): the items of an array x, else x itself
              combined ==
                Get(vals[1], "catalogTechnologies").items
                  \o (IF IsArray(second) THEN second.items ELSE <<second>>)
              shaped ==
                IF Truthy(search)
                  THEN FuseSearch(combined, {"name", "description"}, search.s)
                  ELSE combined
          IN MapBlocks(Arr(shaped), formatCatalogTechnology)

\* getTeams with the search run whatever the search argument is
tool_getTeams_AlwaysSearch(args, vals) ==
  LET search == Get(args, "search")
  IN IF Len(vals) = 0 THEN Call(icepanel_getTeams(OrgId))
     ELSE IF Nullish(vals[1]) \/ Get(vals[1], "teams").kind # "array"
       THEN Throw(TypeErrorMessage)
     ELSE MapBlocks(Arr(FuseSearch(Get(vals[1], "teams").items, {"name"},
                                   IF search.kind = "string" THEN search.s
                                   ELSE "")),
                    formatTeam)

tool_getTeams(args, vals) ==
  LET search == Get(args, "search")
  IN IF Len(vals) = 0 THEN Call(icepanel_getTeams(OrgId))
     ELSE IF Nullish(vals[1]) THEN Throw(TypeErrorMessage)
     ELSE LET fetched == Get(vals[1], "teams")
              teams ==
                IF Truthy(search) /\ fetched.kind = "array"
                  THEN Arr(FuseSearch(fetched.items, {"name"}, search.s))
                  ELSE fetched
          IN IF Truthy(search) /\ fetched.kind # "array"
               THEN Throw(TypeErrorMessage)
               ELSE MapBlocks(teams, formatTeam)

\* the object literal {k: args.k, ...} a handler builds from its destructured
\* arguments: every key present, undefined where the argument is absent
Pick_NullForAbsent(args, keys) == Literal([i \in 1..Len(keys) |-> <<keys[i], IF Get(args, keys[i]) = Undefined THEN Null ELSE Get(args, keys[i])>>])

Pick(args, keys) == Literal([i \in 1..Len(keys) |-> <<keys[i], Get(args, keys[i])>>])

\* `Successfully created <what>"name" (ID: id)` after a POST whose response
\* is read with .id (a TypeError on a null response)
CreatedText(what, name, id) ==
  <<"Successfully created ", what, "\"", JsString(name), "\" (ID: ",
    JsString(id), ")">>

tool_createLandscape(args, vals) ==
  IF Len(vals) = 0
    THEN Call(icepanel_createLandscape(OrgId,
                Pick(args, <<"name", "description", "icon", "visibility">>)))
  ELSE IF Nullish(vals[1]) THEN Throw(TypeErrorMessage)
  ELSE Return(<<TextBlock(CreatedText("landscape: ", Get(args, "name"),
                                      Get(vals[1], "id")))>>)

tool_createModelObject(args, vals) ==
  IF Len(vals) = 0
    THEN Call(icepanel_createModelObject(Get(args, "landscapeId"),
                Pick(args, <<"name", "type", "parentId", "description",
                             "domainId", "external", "status", "technologyId",
                             "teamId">>)))
  ELSE IF Nullish(vals[1]) THEN Throw(TypeErrorMessage)
  ELSE LET id == Get(vals[1], "id")
           objectId == IF Truthy(id) THEN id ELSE Str("unknown")
       IN Return(<<TextBlock(
            <<"Successfully created ", JsString(Get(args, "type")), " \"",
              JsString(Get(args, "name")), "\" (ID: ", JsString(objectId),
              ")">>)>>)

tool_createModelConnection(args, vals) ==
  IF Len(vals) = 0
    THEN Call(icepanel_createModelConnection(Get(args, "landscapeId"),
                Pick(args, <<"name", "originId", "targetId", "description",
                             "direction", "status">>)))
  ELSE IF Nullish(vals[1]) THEN Throw(TypeErrorMessage)
  ELSE Return(<<TextBlock(CreatedText("connection ", Get(args, "name"),
                                      Get(vals[1], "id")))>>)

tool_createDomain(args, vals) ==
  IF Len(vals) = 0
    THEN Call(icepanel_createDomain(Get(args, "landscapeId"),
                Pick(args, <<"name", "description", "color">>)))
  ELSE IF Nullish(vals[1]) THEN Throw(TypeErrorMessage)
  ELSE Return(<<TextBlock(CreatedText("domain ", Get(args, "name"),
                                      Get(vals[1], "id")))>>)

tool_verifyLandscape(args, vals) ==
  IF Len(vals) = 0
    THEN Call(icepanel_getLandscape(OrgId, Get(args, "landscapeId")))
  ELSE IF Nullish(vals[1]) THEN Throw(TypeErrorMessage)
  ELSE LET n == Get(vals[1], "name")
           name == IF Truthy(n) THEN n ELSE Str("Unknown")
       IN Return(<<TextBlock(
            <<"Landscape exists: \"", JsString(name), "\" (ID: ",
              JsString(Get(args, "landscapeId")), ")">>)>>)

tool_createTestSystem(args, vals) ==
  IF Len(vals) = 0
    THEN Call(icepanel_createModelObject(Get(args, "landscapeId"),
                Literal(<<<<"name", Str("Test System")>>,
                          <<"type", Str("system")>>,
                          <<"description",
                            Str("A test system to verify API functionality")>>>>)))
  ELSE Return(<<TextBlock(
         <<"Successfully created test system. Response: ",
           Stringify(vals[1])>>)>>)

tool_getDiagrams(args, vals) ==
  IF Len(vals) = 0 THEN Call(icepanel_getDiagrams(Get(args, "landscapeId")))
  ELSE ReturnJson(vals[1])

tool_getDiagram(args, vals) ==
  IF Len(vals) = 0
    THEN Call(icepanel_getDiagram(Get(args, "landscapeId"),
                                  Get(args, "diagramId")))
  ELSE ReturnJson(vals[1])

\* diagram.diagram?.id
DiagramIdOf(response) ==
  IF Nullish(Get(response, "diagram")) THEN Undefined
  ELSE Get(Get(response, "diagram"), "id")

tool_createDiagram(args, vals) ==
  LET objectIds == Get(args, "objectIds")
      validatedObjectIds ==
        IF Truthy(objectIds) /\ IsArray(objectIds) THEN objectIds ELSE Arr(<<>>)
      data ==
        With(Pick(args, <<"name", "viewType", "description", "rootObjectId">>),
             "objectIds", validatedObjectIds)
      objectCount == Len(validatedObjectIds.items)
  IN IF Len(vals) = 0
       THEN Call(icepanel_createDiagram(Get(args, "landscapeId"), data))
     ELSE IF ~Truthy(DiagramIdOf(vals[1])) THEN Throw(NoDiagramIdMessage)
     ELSE IF Len(vals) = 1
       THEN Call(icepanel_getDiagram(Get(args, "landscapeId"),
                                     DiagramIdOf(vals[1])))
     ELSE Return(<<TextBlock(
            <<"Successfully created diagram \"", JsString(Get(args, "name")),
              "\" (ID: ", JsString(DiagramIdOf(vals[1])), ")">>
              \o (IF objectCount > 0
                    THEN <<" with ", ToString(objectCount), " objects">>
                    ELSE <<>>))>>)

\* createDiagramWithObjects without the validation of objectIds
tool_createDiagramWithObjects_Unchecked(args, vals) ==
  LET objectIds == Get(args, "objectIds")
  IN IF Len(vals) = 0
       THEN Call(icepanel_createDiagram(Get(args, "landscapeId"),
                   Pick(args, <<"name", "viewType", "description",
                                "rootObjectId", "objectIds">>)))
     ELSE IF ~Truthy(DiagramIdOf(vals[1])) THEN Throw(NoDiagramIdMessage)
     ELSE Return(<<TextBlock(
            <<"Successfully created diagram \"", JsString(Get(args, "name")),
              "\" (ID: ", JsString(DiagramIdOf(vals[1])), ") with ",
              LengthString(Items(objectIds)), " objects.">>)>>)

tool_createDiagramWithObjects(args, vals) ==
  LET objectIds == Get(args, "objectIds")
  IN IF ~Truthy(objectIds) \/ ~IsArray(objectIds) \/ Len(Items(objectIds)) = 0
       THEN Throw(ObjectIdsMessage)
     ELSE IF Len(vals) = 0
       THEN Call(icepanel_createDiagram(Get(args, "landscapeId"),
                   Pick(args, <<"name", "viewType", "description",
                                "rootObjectId", "objectIds">>)))
     ELSE IF ~Truthy(DiagramIdOf(vals[1])) THEN Throw(NoDiagramIdMessage)
     ELSE Return(<<TextBlock(
            <<"Successfully created diagram \"", JsString(Get(args, "name")),
              "\" (ID: ", JsString(DiagramIdOf(vals[1])), ") with ",
              LengthString(objectIds.items), " objects.">>)>>)

tool_updateDiagram(args, vals) ==
  IF Len(vals) = 0
    THEN Call(icepanel_updateDiagram(Get(args, "landscapeId"),
                Get(args, "diagramId"),
                Pick(args, <<"name", "viewType", "description", "rootObjectId",
                             "objectIds">>)))
    ELSE Return(<<TextBlock(
           <<"Successfully updated diagram \"", JsString(Get(args, "name")),
             "\" (ID: ", JsString(Get(args, "diagramId")), ")">>)>>)

tool_deleteDiagram(args, vals) ==
  IF Len(vals) = 0
    THEN Call(icepanel_deleteDiagram(Get(args, "landscapeId"),
                                     Get(args, "diagramId")))
    ELSE Return(<<TextBlock(
           <<"Successfully deleted diagram with ID: ",
             JsString(Get(args, "diagramId"))>>)>>)

tool_addObjectsToDiagram(args, vals) ==
  LET landscapeId == Get(args, "landscapeId")
      diagramId == Get(args, "diagramId")
      objectIds == Get(args, "objectIds")
      current == Get(Get(vals[1], "diagram"), "objectIds")
      \* currentDiagram.diagram.objectIds || []
      currentObjectIds == IF Truthy(current) THEN Items(current) ELSE <<>>
      updatedObjectIds == Dedupe(currentObjectIds \o Items(objectIds))
  IN IF ~Truthy(objectIds) \/ ~IsArray(objectIds) \/ Len(Items(objectIds)) = 0
       THEN Throw(ObjectIdsMessage)
     ELSE IF Len(vals) = 0 THEN Call(icepanel_getDiagram(landscapeId, diagramId))
     ELSE IF Nullish(vals[1]) \/ Nullish(Get(vals[1], "diagram"))
       THEN Throw(TypeErrorMessage)
     ELSE IF Len(vals) = 1
       THEN Call(icepanel_updateDiagram(landscapeId, diagramId,
                   Literal(<<<<"objectIds", Arr(updatedObjectIds)>>>>)))
     ELSE IF Len(vals) = 2 THEN Call(icepanel_getDiagram(landscapeId, diagramId))
     ELSE IF Nullish(Get(vals[2], "diagram")) THEN Throw(TypeErrorMessage)
     ELSE Return(<<TextBlock(
            <<"Successfully added ", LengthString(objectIds.items),
              " objects to diagram \"",
              JsString(Get(Get(vals[2], "diagram"), "name")), "\" (ID: ",
              JsString(diagramId), ").\nThe diagram now contains ",
              LengthString(updatedObjectIds), " objects.">>)>>)

\* the handler registered under each tool name
Body(tool, args, vals) ==
  CASE tool = "getLandscapes" -> tool_getLandscapes(args, vals)
    [] tool = "getLandscape" -> tool_getLandscape(args, vals)
    [] tool = "getModelObjects" -> tool_getModelObjects(args, vals)
    [] tool = "getModelObject" -> tool_getModelObject(args, vals)
    [] tool = "getModelObjectRelationships" ->
         tool_getModelObjectRelationships(args, vals)
    [] tool = "getTechnologyCatalog" -> tool_getTechnologyCatalog(args, vals)
    [] tool = "getTeams" -> tool_getTeams(args, vals)
    [] tool = "createLandscape" -> tool_createLandscape(args, vals)
    [] tool = "createModelObject" -> tool_createModelObject(args, vals)
    [] tool = "createModelConnection" -> tool_createModelConnection(args, vals)
    [] tool = "createDomain" -> tool_createDomain(args, vals)
    [] tool = "verifyLandscape" -> tool_verifyLandscape(args, vals)
    [] tool = "createTestSystem" -> tool_createTestSystem(args, vals)
    [] tool = "getDiagrams" -> tool_getDiagrams(args, vals)
    [] tool = "getDiagram" -> tool_getDiagram(args, vals)
    [] tool = "createDiagram" -> tool_createDiagram(args, vals)
    [] tool = "createDiagramWithObjects" ->
         tool_createDiagramWithObjects(args, vals)
    [] tool = "updateDiagram" -> tool_updateDiagram(args, vals)
    [] tool = "deleteDiagram" -> tool_deleteDiagram(args, vals)
    [] tool = "addObjectsToDiagram" -> tool_addObjectsToDiagram(args, vals)

\* the text the catch block of each handler puts before error.message
ErrorPrefix(tool) ==
  CASE tool \in {"getLandscapes", "getLandscape", "getModelObjects",
                 "getModelObject", "getModelObjectRelationships",
                 "getTechnologyCatalog", "getTeams"} -> "Error: "
    [] tool = "createLandscape" -> "Error creating landscape: "
    [] tool = "createModelObject" -> "Error creating model object: "
    [] tool = "createModelConnection" -> "Error creating connection: "
    [] tool = "createDomain" -> "Error creating domain: "
    [] tool = "verifyLandscape" -> "Error verifying landscape: "
    [] tool = "createTestSystem" -> "Error creating test system: "
    [] tool = "getDiagrams" -> "Error getting diagrams: "
    [] tool = "getDiagram" -> "Error getting diagram: "
    [] tool = "createDiagram" -> "Error creating diagram: "
    [] tool = "createDiagramWithObjects" ->
         "Error creating diagram with objects: "
    [] tool = "updateDiagram" -> "Error updating diagram: "
    [] tool = "deleteDiagram" -> "Error deleting diagram: "
    [] tool = "addObjectsToDiagram" -> "Error adding objects to diagram: "

\* the handler body without its try/catch
TryCatch_NoCatch(tool, effect) == effect

\* try { ... } catch (error) { return one text block with error.message }
TryCatch(tool, effect) ==
  IF effect.kind = "throw"
    THEN Return(<<TextBlock(<<ErrorPrefix(tool)>> \o effect.message)>>)
    ELSE effect

\* a settled await: the promise of the API function fulfilled with a value
\* or rejected with an error
Fulfilled(value) == [rejected |-> FALSE, error |-> <<>>, value |-> value]
Rejected(error) == [rejected |-> TRUE, error |-> error, value |-> Undefined]

\* the await with the rejection swallowed ( .catch(() => undefined) ): the
\* body goes on with undefined
Awaited_Swallowed(tool, args, vals, settled) ==
  [vals |-> Append(vals, settled.value),
   effect |-> Body(tool, args, Append(vals, settled.value))]

\* const x = await icepanel.f(...) inside the try block: a rejection is
\* thrown at the await, a value is kept and the body goes on
Awaited(tool, args, vals, settled) ==
  IF settled.rejected
    THEN [vals |-> vals, effect |-> Throw(settled.error)]
    ELSE [vals |-> Append(vals, settled.value),
          effect |-> Body(tool, args, Append(vals, settled.value))]

(***************************************************************************)
(* The remote side: the responses a call can be answered with.             *)
(***************************************************************************)
\* identifiers of the declared length
L1 == "landscape00000000001"
O1 == "object00000000000001"
O2 == "object00000000000002"
O3 == "object00000000000003"
T1 == "team0000000000000001"

\* a response body: its raw text, whether JSON.parse accepts it, its value
TextBody(raw) == [raw |-> raw, json |-> FALSE, val |-> Undefined]
JsonBody(val) == [raw |-> Stringify(val), json |-> TRUE, val |-> val]

Object1 ==
  Obj(<<<<"id", Str(O1)>>, <<"name", Str("Api")>>, <<"type", Str("app")>>,
        <<"status", Str("live")>>, <<"external", Bool(FALSE)>>,
        <<"handleId", Str("h1")>>, <<"parentId", Str(O2)>>,
        <<"childIds", Arr(<<>>)>>, <<"teamIds", Arr(<<Str(T1)>>)>>>>)
Object2 ==
  Obj(<<<<"id", Str(O2)>>, <<"name", Str("Shop")>>, <<"type", Str("system")>>,
        <<"description", Str("The shop")>>, <<"parentId", Str("root")>>,
        <<"childIds", Arr(<<Str(O1)>>)>>, <<"teamIds", Arr(<<>>)>>>>)
Object3 ==
  Obj(<<<<"id", Str(O3)>>, <<"name", Str("Ui")>>, <<"type", Str("app")>>,
        <<"parentId", Str("")>>, <<"childIds", Arr(<<Str(O2), Str(O1)>>)>>>>)
Team1 ==
  Obj(<<<<"id", Str(T1)>>, <<"name", Str("Core")>>,
        <<"userIds", Arr(<<Str("u1")>>)>>>>)
Team2 == Obj(<<<<"id", Str("team0000000000000002")>>, <<"name", Str("Cor")>>>>)
Team3 == Obj(<<<<"id", Str("team0000000000000003")>>, <<"name", Str("Ops")>>>>)
Connection1 ==
  Obj(<<<<"id", Str("c1")>>, <<"name", Str("calls")>>,
        <<"originId", Str(O2)>>, <<"targetId", Str(O1)>>>>)
Technology1 ==
  Obj(<<<<"id", Str("t1")>>, <<"name", Str("Kafka")>>,
        <<"type", Str("message-broker")>>>>)
Diagram1 ==
  Obj(<<<<"id", Str("d1")>>, <<"name", Str("Overview")>>,
        <<"objectIds", Arr(<<Str(O1)>>)>>>>)
\* a diagram without id and without objectIds
Diagram2 == Obj(<<<<"name", Str("Draft")>>>>)
Created1 == Obj(<<<<"id", Str("x1")>>, <<"name", Str("Main")>>>>)

Wrap(key, value) == Obj(<<<<key, value>>>>)

\* well-shaped bodies for the responses of each API function
GoodBodies(fn) ==
  CASE fn = "getModelObjects" ->
         {JsonBody(Wrap("modelObjects", Arr(<<Object1, Object2>>)))}
    [] fn = "getModelObject" ->
         {JsonBody(Wrap("modelObject", Object1)),
          JsonBody(Wrap("modelObject", Object2)),
          JsonBody(Wrap("modelObject", Object3))}
    [] fn = "getTeams" ->
         {JsonBody(Wrap("teams", Arr(<<Team1>>))),
          JsonBody(Wrap("teams", Arr(<<Team1, Team3, Team2>>)))}
    [] fn = "getModelConnections" ->
         {JsonBody(Wrap("modelConnections", Arr(<<Connection1>>))),
          JsonBody(Wrap("modelConnections", Arr(<<>>)))}
    [] fn \in {"getCatalogTechnologies", "getOrganizationTechnologies"} ->
         {JsonBody(Wrap("catalogTechnologies", Arr(<<Technology1>>)))}
    [] fn \in {"getDiagram", "createDiagram", "updateDiagram"} ->
         {JsonBody(Wrap("diagram", Diagram1)),
          JsonBody(Wrap("diagram", Diagram2))}
    [] OTHER -> {JsonBody(Created1)}

\* bodies any call can be answered with: not JSON, JSON null, JSON {}
CommonBodies == {TextBody("<html>"), JsonBody(Null), JsonBody(Obj(<<>>))}

Response(status, statusText, body) ==
  [status |-> status, statusText |-> statusText, body |-> body]

\* the responses the remote can give to a request of fn
Responses(fn) ==
  {Response(200, "OK", b) : b \in CommonBodies \cup GoodBodies(fn)}
    \cup {Response(204, "No Content", TextBody(""))}
    \cup {Response(404, "Not Found", b) :
            b \in {TextBody("no such resource"), JsonBody(Obj(<<>>))}}
    \cup {Response(500, "Internal Server Error", TextBody("internal error"))}

(***************************************************************************)
(* icepanel.ts: apiRequest                                                 *)
(***************************************************************************)
\* only server errors taken as failures
ResponseOk_Below500(response) == response.status < 500

\* response.ok
ResponseOk(response) == response.status \in 200..299

\* the error message without the body text
HttpErrorMessage_NoBody(response) ==
  <<"IcePanel API error: ", ToString(response.status), " ",
    response.statusText>>

\* `IcePanel API error: ${status} ${statusText} - ${errorText}`
HttpErrorMessage(response) ==
  <<"IcePanel API error: ", ToString(response.status), " ",
    response.statusText, " - ", response.body.raw>>

\* apiRequest once fetch resolved with response: which of response.text()
\* and response.json() it reads the body with, and what it throws or returns
apiRequest(response) ==
  IF ~ResponseOk(response)
    THEN [outcome |-> "http", read |-> "text",
          error |-> HttpErrorMessage(response), value |-> Undefined]
  ELSE IF ~response.body.json
    THEN [outcome |-> "syntax", read |-> "json",
          error |-> JsonSyntaxMessage, value |-> Undefined]
  ELSE [outcome |-> "ok", read |-> "json", error |-> <<>>,
        value |-> response.body.val]

(***************************************************************************)
(* State.                                                                  *)
(***************************************************************************)
VARIABLES
  pc,          \* where the process is: "launcher", "import", "check",
               \* "register", "connect", "serving", "exited"
  argv,        \* command-line arguments the launcher has still to look at
  env,         \* process.env for API_KEY and ORGANIZATION_ID
  overridden,  \* per key, the last value the command line gave it (as typed)
  exitCode,    \* process exit code, -1 while running
  stderr,      \* the lines console.error wrote during startup
  registered,  \* names passed to server.tool so far
  connected,   \* server.connect(transport) was called
  inv,         \* the tool invocation being served
  encOptions,  \* EncSpec: the options argument given to a list function
  encFn,       \* EncSpec: the list function applied, "none" before
  encOut,      \* EncSpec: what the list function built
  encPrev,     \* EncSpec: the call before that one and what it built
  fmtRecord,   \* FmtSpec: the record given to a formatter
  fmtFn,       \* FmtSpec: the formatter applied, "none" before
  fmtOut,      \* FmtSpec: the text it returned
  invs,        \* ConcSpec: the invocations in progress, one per slot
  remote       \* ConcSpec: the objectIds of the diagram held by the remote

\* no list function called yet
NoCall == [fn |-> "none", out |-> ListRequest("getModelObjects", NoFilter)]

procVars == <<pc, argv, env, overridden, exitCode, stderr, registered, connected, inv>>
encVars == <<encOptions, encFn, encOut, encPrev>>
fmtVars == <<fmtRecord, fmtFn, fmtOut>>
concVars == <<invs, remote>>
vars == <<pc, argv, env, overridden, exitCode, stderr, registered, connected, inv,
          encOptions, encFn, encOut, encPrev, fmtRecord, fmtFn, fmtOut,
          invs, remote>>

(***************************************************************************)
(* bin launcher and the top of main.ts                                     *)
(***************************************************************************)
\* longest command line
MaxArgs == 2

ConfigKeys == {"API_KEY", "ORGANIZATION_ID"}

Unset == [set |-> FALSE, val |-> ""]
SetTo(val) == [set |-> TRUE, val |-> val]

\* an argument is the sequence of its pieces: a name, "=", a quote, text
Quotes == {"'", "\""}

\* the text of a sequence of pieces
RECURSIVE Concat(_)
Concat(pieces) ==
  IF pieces = <<>> THEN "" ELSE Head(pieces) \o Concat(Tail(pieces))

\* position of the first "=" of arg, 0 when there is none
FirstEq(arg) ==
  IF \E i \in 1..Len(arg) : arg[i] = "=" 
    THEN CHOOSE i \in 1..Len(arg) :
           arg[i] = "=" /\ \A j \in 1..(i - 1) : arg[j] # "="
    ELSE 0

\* arg.match(/^([^=]+)=(.*)$/)
ArgMatches(arg) == FirstEq(arg) > 1

\* value.replace(/^["'](.*)["']$/, '$1')
StripQuotes(value) ==
  IF Len(value) >= 2 /\ value[1] \in Quotes /\ value[Len(value)] \in Quotes
    THEN SubSeq(value, 2, Len(value) - 1)
    ELSE value

ArgKey(arg) == Concat(SubSeq(arg, 1, FirstEq(arg) - 1))
ArgValue(arg) == Concat(StripQuotes(SubSeq(arg, FirstEq(arg) + 1, Len(arg))))

\* the command-line arguments considered
ArgValues == {<<>>, <<"k">>, <<"'", "k", "'">>, <<"\"", "\"">>}
ArgSet ==
  {<<k, "=">> \o v : k \in ConfigKeys, v \in ArgValues}
    \cup {<<"API_KEY">>, <<"=", "k">>}

\* no KEY=value argument seen for a key
NotGiven == [given |-> FALSE, raw |-> <<>>]

\* truthiness of process.env[key]
Present(e) == e.set /\ e.val # ""

\* process.argv.slice(2).forEach(...): one argument
LauncherArg ==
  /\ pc = "launcher"
  /\ argv # <<>>
  /\ LET arg == Head(argv)
     IN IF ArgMatches(arg) /\ ArgKey(arg) \in ConfigKeys
          THEN /\ env' = [env EXCEPT ![ArgKey(arg)] = SetTo(ArgValue(arg))]
               /\ overridden' =
                    [overridden EXCEPT ![ArgKey(arg)] =
                       [given |-> TRUE,
                        raw |-> SubSeq(arg, FirstEq(arg) + 1, Len(arg))]]
          ELSE UNCHANGED <<env, overridden>>
  /\ argv' = Tail(argv)
  /\ UNCHANGED <<pc, exitCode, stderr, registered, connected, inv, encVars, fmtVars, concVars>>

\* import('../dist/main.js') once every argument was looked at
LauncherImport ==
  /\ pc = "launcher"
  /\ argv = <<>>
  /\ pc' = "import"
  /\ UNCHANGED <<argv, env, overridden, exitCode, stderr, registered, connected, inv,
                 encVars, fmtVars, concVars>>

\* .catch(err => process.exit(1)) : the module cannot be loaded
ImportFails ==
  /\ pc = "import"
  /\ pc' = "exited"
  /\ exitCode' = 1
  /\ stderr' = Append(stderr, "Failed to start IcePanel MCP Server:")
  /\ UNCHANGED <<argv, env, overridden, registered, connected, inv, encVars, fmtVars, concVars>>

\* what a .env file can define
DotenvFiles == [ConfigKeys -> {Unset, SetTo("k")}]

\* dotenv.config(): a key of the .env file is set unless process.env has it
DotenvConfig ==
  /\ pc = "import"
  /\ \E parsed \in DotenvFiles :
       env' = [k \in ConfigKeys |-> IF env[k].set THEN env[k] ELSE parsed[k]]
  /\ pc' = "check"
  /\ UNCHANGED <<argv, overridden, exitCode, stderr, registered, connected, inv,
                 encVars, fmtVars, concVars>>

\* the check without its second test
ConfigMissing_ApiKeyOnly(e) == ~Present(e["API_KEY"])

\* if (!API_KEY) exit(1); if (!ORGANIZATION_ID) exit(1)
ConfigMissing(e) == ~Present(e["API_KEY"]) \/ ~Present(e["ORGANIZATION_ID"])

ConfigCheckExit ==
  /\ pc = "check"
  /\ ConfigMissing(env)
  /\ pc' = "exited"
  /\ exitCode' = 1
  /\ stderr' =
       Append(stderr,
              IF ~Present(env["API_KEY"])
                THEN "API_KEY environment variable is not set"
                ELSE "ORGANIZATION_ID environment variable is not set")
  /\ UNCHANGED <<argv, env, overridden, registered, connected, inv, encVars, fmtVars, concVars>>

ConfigCheckPass ==
  /\ pc = "check"
  /\ ~ConfigMissing(env)
  /\ pc' = "register"
  /\ UNCHANGED <<argv, env, overridden, exitCode, stderr, registered, connected, inv,
                 encVars, fmtVars, concVars>>

\* new McpServer(...) and the server.tool(...) calls
RegisterTools ==
  /\ pc = "register"
  /\ registered' = Tools
  /\ pc' = "connect"
  /\ UNCHANGED <<argv, env, overridden, exitCode, stderr, connected, inv, encVars, fmtVars, concVars>>

\* await server.connect(new StdioServerTransport())
Connect ==
  /\ pc = "connect"
  /\ connected' = TRUE
  /\ pc' = "serving"
  /\ UNCHANGED <<argv, env, overridden, exitCode, stderr, registered, inv, encVars, fmtVars, concVars>>

(***************************************************************************)
(* Tool invocations.  The MCP server validates the arguments of a          *)
(* tools/call request against the registered schema and runs the handler   *)
(* only with arguments the schema accepts.  The handler runs up to its     *)
(* next await; the remote answers or the network fails; the handler        *)
(* resumes.                                                                *)
(***************************************************************************)
Idle == [state |-> "idle"]

\* one remote call of an invocation, as recorded when fetch is called
Issued(request) ==
  [request |-> request, outcome |-> "pending", status |-> 0,
   statusText |-> "", raw |-> "", read |-> "none"]

\* argument values offered for any field of a request
ArgPool ==
  {Null, Bool(TRUE), Str("Api"), Str(L1), Str("system"), Str("live"),
   Arr(<<>>), Arr(<<Str(O1), Str(O2), Str(O1)>>)}

\* an argument record every field of which the schema accepts
BaseArgs(tool) ==
  CASE tool = "getLandscapes" -> <<>>
    [] tool \in {"getLandscape", "verifyLandscape", "createTestSystem",
                 "getDiagrams", "getModelObjects"} ->
         [landscapeId |-> Str(L1)]
    [] tool \in {"getModelObject", "getModelObjectRelationships"} ->
         [landscapeId |-> Str(L1), modelObjectId |-> Str(O1)]
    [] tool = "getTechnologyCatalog" -> [search |-> Str("")]
    [] tool = "getTeams" -> [search |-> Str("Cor")]
    [] tool = "createLandscape" -> [name |-> Str("Main")]
    [] tool = "createModelObject" ->
         [landscapeId |-> Str(L1), name |-> Str("Api"), type |-> Str("app")]
    [] tool = "createModelConnection" ->
         [landscapeId |-> Str(L1), name |-> Str("calls"),
          originId |-> Str(O2), targetId |-> Str(O1)]
    [] tool = "createDomain" -> [landscapeId |-> Str(L1), name |-> Str("Main")]
    [] tool \in {"getDiagram", "deleteDiagram"} ->
         [landscapeId |-> Str(L1), diagramId |-> Str("d1")]
    [] tool = "updateDiagram" ->
         [landscapeId |-> Str(L1), diagramId |-> Str("d1"),
          name |-> Str("Overview")]
    [] tool = "createDiagram" ->
         [landscapeId |-> Str(L1), name |-> Str("Overview"),
          viewType |-> Str("landscape")]
    [] tool = "createDiagramWithObjects" ->
         [landscapeId |-> Str(L1), name |-> Str("Overview"),
          viewType |-> Str("landscape"), objectIds |-> Arr(<<Str(O1)>>)]
    [] tool = "addObjectsToDiagram" ->
         [landscapeId |-> Str(L1), diagramId |-> Str("d1"),
          objectIds |-> Arr(<<Str(O2)>>)]

FieldNames(tool) == {Schema(tool)[i].name : i \in 1..Len(Schema(tool))}

\* search texts offered to the tools that take one
SearchPool == {Str(""), Str("Kafk"), Str("Kafka")}

\* the argument records offered to a tool: the base record, and the base
\* record with one declared field removed or given any value of the pool
ArgsFor(tool) ==
  LET base == BaseArgs(tool)
  IN {base}
       \cup {("search" :> v) @@ base :
               v \in IF "search" \in FieldNames(tool) THEN SearchPool ELSE {}}
       \cup {[k \in DOMAIN base \ {f} |-> base[k]] : f \in FieldNames(tool)}
       \cup {(f :> v) @@ base : f \in FieldNames(tool), v \in ArgPool}

\* the handler called with the parsed arguments: its body from the top
Started(tool, parsed) ==
  [vals |-> <<>>, effect |-> Body(tool, parsed, <<>>)]

\* the invocation after the body of the handler did effect: a throw is
\* caught by the handler's catch block; the invocation then awaits a call or
\* has returned
After(tool, parsed, resumed, calls) ==
  LET vals == resumed.vals
      effect == resumed.effect
      caught == TryCatch(tool, effect)
      failed == effect.kind = "throw"
      error == IF failed THEN effect.message ELSE <<>>
  IN IF caught.kind = "call"
       THEN [state |-> "awaiting", tool |-> tool, args |-> parsed,
             vals |-> vals, calls |-> Append(calls, Issued(caught.request)),
             content |-> <<>>, thrown |-> FALSE, failed |-> failed,
             error |-> error]
     ELSE IF caught.kind = "return"
       THEN [state |-> "returned", tool |-> tool, args |-> parsed,
             vals |-> vals, calls |-> calls, content |-> caught.content,
             thrown |-> FALSE, failed |-> failed, error |-> error]
     ELSE \* the exception leaves the handler
          [state |-> "returned", tool |-> tool, args |-> parsed,
           vals |-> vals, calls |-> calls, content |-> <<>>, thrown |-> TRUE,
           failed |-> failed, error |-> error]

\* a tools/call request whose arguments the schema rejects: the handler is
\* not run
CallToolInvalid ==
  /\ pc = "serving"
  /\ inv.state = "idle"
  /\ \E tool \in registered : \E a \in ArgsFor(tool) :
       /\ ~SchemaAccepts(tool, a)
       /\ inv' = [state |-> "rejected", tool |-> tool, calls |-> <<>>]
  /\ UNCHANGED <<pc, argv, env, overridden, exitCode, stderr, registered, connected,
                 encVars, fmtVars, concVars>>

\* a tools/call request with valid arguments: the handler runs to its first
\* await or to its return
CallTool ==
  /\ pc = "serving"
  /\ inv.state = "idle"
  /\ \E tool \in registered : \E a \in ArgsFor(tool) :
       /\ SchemaAccepts(tool, a)
       /\ LET parsed == Parse(tool, a)
          IN inv' = After(tool, parsed, Started(tool, parsed), <<>>)
  /\ UNCHANGED <<pc, argv, env, overridden, exitCode, stderr, registered, connected,
                 encVars, fmtVars, concVars>>

\* the call log with its last (pending) entry completed
Completed(calls, outcome, response, read) ==
  [calls EXCEPT ![Len(calls)] =
     [@ EXCEPT !.outcome = outcome, !.status = response.status,
               !.statusText = response.statusText,
               !.raw = response.body.raw, !.read = read]]

\* no response
NoResponse == Response(0, "", TextBody(""))

\* fetch rejects (network fault): apiRequest rejects, the handler resumes at
\* its await
FetchFault ==
  /\ inv.state = "awaiting"
  /\ inv' = After(inv.tool, inv.args,
                  Awaited(inv.tool, inv.args, inv.vals,
                          Rejected(FetchFailedMessage)),
                  Completed(inv.calls, "fault", NoResponse, "none"))
  /\ UNCHANGED <<pc, argv, env, overridden, exitCode, stderr, registered, connected,
                 encVars, fmtVars, concVars>>

\* what the API function fn settles with once apiRequest is through
Settle(fn, r) ==
  IF r.outcome # "ok" THEN Rejected(r.error)
  ELSE IF ApiReturn(fn, r.value).error # "none" THEN Rejected(TypeErrorMessage)
  ELSE Fulfilled(ApiReturn(fn, r.value).value)

\* fetch resolves with a response: the rest of apiRequest, the rest of the
\* API function, then the handler up to its next await or its return
FetchResponse ==
  /\ inv.state = "awaiting"
  /\ LET request == inv.calls[Len(inv.calls)].request
     IN \E response \in Responses(request.fn) :
          LET r == apiRequest(response)
          IN inv' = After(inv.tool, inv.args,
                          Awaited(inv.tool, inv.args, inv.vals,
                                  Settle(request.fn, r)),
                          Completed(inv.calls, r.outcome, response, r.read))
  /\ UNCHANGED <<pc, argv, env, overridden, exitCode, stderr, registered, connected,
                 encVars, fmtVars, concVars>>

\* the result (or the rejection) is sent; the server waits for the next
\* request
Reply ==
  /\ inv.state \in {"returned", "rejected"}
  /\ inv' = Idle
  /\ UNCHANGED <<pc, argv, env, overridden, exitCode, stderr, registered, connected,
                 encVars, fmtVars, concVars>>

(***************************************************************************)
(* Spec: the process.                                                      *)
(***************************************************************************)
EnvValues == {Unset, SetTo(""), SetTo("k")}

\* sequences of at most n elements of S
SeqUpTo(S, n) == UNION {[1..m -> S] : m \in 0..n}

EncIdle ==
  /\ encOptions = NoFilter
  /\ encFn = "none"
  /\ encOut = ListRequest("getModelObjects", NoFilter)
  /\ encPrev = NoCall

FmtIdle ==
  /\ fmtRecord = Obj(<<>>)
  /\ fmtFn = "none"
  /\ fmtOut = <<>>

\* the slots for invocations in progress at the same time
Slots == {1, 2}

ConcIdle ==
  /\ invs = [i \in Slots |-> Idle]
  /\ remote = <<>>

Init ==
  /\ pc = "launcher"
  /\ argv \in SeqUpTo(ArgSet, MaxArgs)
  /\ env \in [ConfigKeys -> EnvValues]
  /\ overridden = [k \in ConfigKeys |-> NotGiven]
  /\ exitCode = -1
  /\ stderr = <<>>
  /\ registered = {}
  /\ connected = FALSE
  /\ inv = Idle
  /\ EncIdle
  /\ FmtIdle
  /\ ConcIdle

Next ==
  \/ LauncherArg
  \/ LauncherImport
  \/ ImportFails
  \/ DotenvConfig
  \/ ConfigCheckExit
  \/ ConfigCheckPass
  \/ RegisterTools
  \/ Connect
  \/ CallToolInvalid
  \/ CallTool
  \/ FetchFault
  \/ FetchResponse
  \/ Reply

Spec == Init /\ [][Next]_vars

(***************************************************************************)
(* Properties of the process (Spec).                                       *)
(***************************************************************************)
\* the handler of a tool is running or has returned
InHandler == inv.state \in {"awaiting", "returned"}

\* the remote calls of the invocation that were answered or failed
Settled == {i \in 1..Len(inv.calls) : inv.calls[i].outcome # "pending"}

\* call i was answered with a status outside 200..299
NonOk(i) ==
  /\ inv.calls[i].outcome \notin {"pending", "fault"}
  /\ inv.calls[i].status \notin 200..299

\* the piece occurs in the text
Contains(text, piece) == \E j \in 1..Len(text) : text[j] = piece

\* C1: whatever the tool and whatever the outcome of its remote calls, the
\* handler returns a result of text blocks and no exception leaves it; when a
\* step failed the result is exactly one text block, the handler's error
\* prefix followed by the message of the failure.
C1_HandlerAlwaysReturns ==
  inv.state = "returned"
    => /\ ~inv.thrown
       /\ \A j \in 1..Len(inv.content) : inv.content[j].type = "text"
       /\ (\E i \in Settled : inv.calls[i].outcome # "ok") => inv.failed
       /\ inv.failed
            => /\ inv.error # <<>>
               /\ inv.content =
                    << [type |-> "text",
                        text |-> <<ErrorPrefix(inv.tool)>> \o inv.error] >>

\* a handler returned its error block after a call that was answered 200 with
\* a body of unexpected shape
C1_Witness ==
  /\ inv.state = "returned"
  /\ inv.failed
  /\ Len(inv.content) = 1
  /\ inv.calls # <<>>
  /\ inv.calls[Len(inv.calls)].outcome = "ok"
  /\ inv.calls[Len(inv.calls)].status = 200

\* C3: every call answered with a status outside 200..299 fails with an error
\* that carries the status code, the status text and the raw body text, and
\* its body is read as text, never parsed as JSON; a body is parsed as JSON
\* only when the status is in 200..299.
C3_NonOkFailsUnparsed ==
  InHandler
    => \A i \in Settled :
         /\ NonOk(i)
              => /\ inv.calls[i].outcome = "http"
                 /\ inv.calls[i].read = "text"
                 /\ inv.failed
                 /\ Contains(inv.error, ToString(inv.calls[i].status))
                 /\ Contains(inv.error, inv.calls[i].statusText)
                 /\ Contains(inv.error, inv.calls[i].raw)
         /\ inv.calls[i].read = "json" => inv.calls[i].status \in 200..299

\* a call was answered 404 with a JSON body, which was read as text
C3_Witness ==
  /\ InHandler
  /\ \E i \in Settled :
       /\ inv.calls[i].status = 404
       /\ inv.calls[i].raw = "{}"
       /\ inv.calls[i].read = "text"
       /\ inv.calls[i].outcome = "http"

\* C4: when a call is answered 404 or any other status outside 200..299, the
\* tool returns one text block that contains the status code and the body
\* text of the response, and no exception reaches the caller.
C4_NonOkReported ==
  InHandler
    => \A i \in Settled :
         NonOk(i)
           => /\ inv.state = "returned"
              /\ ~inv.thrown
              /\ Len(inv.content) = 1
              /\ inv.content[1].type = "text"
              /\ Contains(inv.content[1].text, ToString(inv.calls[i].status))
              /\ Contains(inv.content[1].text, inv.calls[i].raw)

\* getDiagram returned after its call was answered 404
C4_Witness ==
  /\ inv.state = "returned"
  /\ inv.tool = "getDiagram"
  /\ Len(inv.calls) = 1
  /\ inv.calls[1].status = 404
  /\ inv.calls[1].raw = "no such resource"
  /\ Contains(inv.content[1].text, "404")

\* C5: a remote call that failed (no response, or a status outside 200..299)
\* is the last call of its invocation: it is not issued again, no other call
\* follows it, and the invocation has ended with an error text.
C5_NoCallAfterFailure ==
  InHandler
    => \A i \in Settled :
         inv.calls[i].outcome \in {"fault", "http"}
           => /\ i = Len(inv.calls)
              /\ inv.state = "returned"
              /\ inv.failed
              /\ Len(inv.content) = 1
              /\ inv.content[1].text[1] = ErrorPrefix(inv.tool)

\* the second call of an invocation failed and the invocation ended there
C5_Witness ==
  /\ inv.state = "returned"
  /\ Len(inv.calls) = 2
  /\ inv.calls[1].outcome = "ok"
  /\ inv.calls[2].outcome = "fault"
  /\ inv.tool = "getModelObject"

\* the text a KEY=value argument gives its key, for the values considered
OverrideText(raw) ==
  CASE raw = <<>> -> ""
    [] raw = <<"k">> -> "k"
    [] raw = <<"'", "k", "'">> -> "k"
    [] raw = <<"\"", "\"">> -> ""

\* a configuration key is unset or empty
Absent(k) == ~env[k].set \/ env[k].val = ""

\* C6: the command line is taken in before the configuration is checked, and
\* each key holds what the last KEY=value argument for it gave; once the check
\* is over with API_KEY or ORGANIZATION_ID absent, the process has exited
\* with code 1, no tool is registered, the transport is not connected and no
\* invocation is served.
C6_AbsentConfigExits ==
  /\ pc # "launcher"
       => /\ argv = <<>>
          /\ \A k \in ConfigKeys :
               overridden[k].given
                 => env[k] = [set |-> TRUE, val |-> OverrideText(overridden[k].raw)]
  /\ (pc \notin {"launcher", "import", "check"} /\ \E k \in ConfigKeys : Absent(k))
       => /\ pc = "exited"
          /\ exitCode = 1
          /\ registered = {}
          /\ ~connected
          /\ inv = Idle
  /\ (registered # {} \/ connected \/ inv # Idle)
       => \A k \in ConfigKeys : ~Absent(k)

\* the process exited at the check: the command line emptied
\* ORGANIZATION_ID, which the environment had set
C6_Witness ==
  /\ pc = "exited"
  /\ exitCode = 1
  /\ stderr = <<"ORGANIZATION_ID environment variable is not set">>
  /\ overridden["ORGANIZATION_ID"] = [given |-> TRUE, raw |-> <<"\"", "\"">>]
  /\ env["ORGANIZATION_ID"] = [set |-> TRUE, val |-> ""]
  /\ Present(env["API_KEY"])
  /\ registered = {}
  /\ ~connected

(***************************************************************************)
(* EncSpec: the list functions of icepanel.ts applied to one options       *)
(* argument.                                                               *)
(***************************************************************************)
\* filter keys, scalars and label sub-keys the descriptions are built from
EncKeys == {"type", "labels", "external"}
EncStrings == {Str("system"), Str("actor")}
EncScalars == EncStrings \cup {Bool(FALSE)}
EncSubKeys == {"env", "tier"}
EncSubValues == {Str("prod")}

\* sequences over S of length at most n without a repeated first component
DistinctKeyed(S, n) ==
  {q \in SeqUpTo(S, n) : \A i, j \in 1..Len(q) : q[i][1] = q[j][1] => i = j}

\* the values a filter key can hold: unset, null, a scalar, a list of
\* strings, a sub-map
EncValues ==
  {Undefined, Null} \cup EncScalars
    \cup {Arr(q) : q \in SeqUpTo(EncStrings, MaxListLen)}
    \cup {Obj(q) : q \in DistinctKeyed(EncSubKeys \X EncSubValues, MaxListLen)}

\* the options arguments: no filter, or a filter of at most MaxKeys keys
EncOptions ==
  {NoFilter} \cup {WithFilter(q) : q \in DistinctKeyed(EncKeys \X EncValues, MaxKeys)}

ListFunctions ==
  {"getCatalogTechnologies", "getOrganizationTechnologies", "getModelObjects",
   "getModelConnections"}

ProcIdle ==
  /\ pc = "launcher"
  /\ argv = <<>>
  /\ env = [k \in ConfigKeys |-> Unset]
  /\ overridden = [k \in ConfigKeys |-> NotGiven]
  /\ exitCode = -1
  /\ stderr = <<>>
  /\ registered = {}
  /\ connected = FALSE
  /\ inv = Idle

EncInit ==
  /\ ProcIdle
  /\ encOptions \in EncOptions
  /\ encFn = "none"
  /\ encOut = ListRequest("getModelObjects", NoFilter)
  /\ encPrev = NoCall
  /\ FmtIdle
  /\ ConcIdle

\* the list function f is called with encOptions, at most twice in a run
Apply(f) ==
  /\ encPrev.fn = "none"
  /\ encPrev' = [fn |-> encFn, out |-> encOut]
  /\ encFn' = f
  /\ encOut' = ListRequest(f, encOptions)
  /\ UNCHANGED <<encOptions, procVars, fmtVars, concVars>>

getCatalogTechnologies == Apply("getCatalogTechnologies")
getOrganizationTechnologies == Apply("getOrganizationTechnologies")
getModelObjects == Apply("getModelObjects")
getModelConnections == Apply("getModelConnections")

EncNext ==
  \/ getCatalogTechnologies
  \/ getOrganizationTechnologies
  \/ getModelObjects
  \/ getModelConnections

EncSpec == EncInit /\ [][EncNext]_vars

(***************************************************************************)
(* Properties of the filter encoders (EncSpec).                            *)
(***************************************************************************)
\* a list function has been applied to encOptions, which has a filter
Encoded == encFn # "none" /\ encOptions.hasFilter

\* positions of the filter description
FilterKeys == 1..Len(encOptions.filter)
KeyAt(i) == encOptions.filter[i][1]
ValueAt(i) == encOptions.filter[i][2]

\* the query parameter names that belong to filter key k
NamesFor(k) ==
  {"filter[" \o k \o "]", "filter[" \o k \o "][]"}
    \cup {"filter[" \o k \o "][" \o sub \o "]" :
            sub \in EncSubKeys \cup {ToString(n) : n \in 0..MaxListLen}}

\* the pairs emitted for filter key k, in emission order
PairsFor(k) == SelectSeq(encOut.params, LAMBDA p : p.name \in NamesFor(k))

\* the text of a scalar
ScalarText(v) ==
  IF v.kind = "boolean" THEN (IF v.b THEN "true" ELSE "false") ELSE v.s

IsScalar(v) == v.kind \in {"string", "boolean"}

\* C7: when every key of the filter holds a scalar or is unset, each of the
\* four encoders emits exactly one pair filter[k]=text(v) for every key that
\* holds a scalar, no pair for an unset key, and nothing else.
C7_ScalarPairs ==
  (Encoded /\ \A i \in FilterKeys : IsScalar(ValueAt(i)) \/ ValueAt(i) = Undefined)
    => /\ encOut.error = "none"
       /\ \A i \in FilterKeys :
            PairsFor(KeyAt(i)) =
              IF ValueAt(i) = Undefined THEN <<>>
              ELSE <<Param("filter[" \o KeyAt(i) \o "]", ScalarText(ValueAt(i)))>>
       /\ Len(encOut.params) =
            Cardinality({i \in FilterKeys : ValueAt(i) # Undefined})

\* a scalar-only filter with one unset key went through the organization
\* technologies encoder and gave the one pair of the key that is set
C7_Witness ==
  /\ encFn = "getOrganizationTechnologies"
  /\ encOptions = WithFilter(<<<<"type", Undefined>>, <<"external", Bool(FALSE)>>>>)
  /\ encOut.error = "none"
  /\ encOut.params = <<Param("filter[external]", "false")>>

\* C8 (as stated): for a list of N scalars under any key k, the pairs emitted
\* for k are exactly N pairs named filter[k][] holding the items in list
\* order.  Stated over the encodings that return.
C8_ListPairs ==
  (Encoded /\ encOut.error = "none")
    => \A i \in FilterKeys :
         ValueAt(i).kind = "array"
           => PairsFor(KeyAt(i)) =
                [j \in 1..Len(ValueAt(i).items) |->
                   Param("filter[" \o KeyAt(i) \o "][]",
                         ScalarText(ValueAt(i).items[j]))]

\* C9 (as stated): for an explicit null under any key k, in any of the four
\* encoders, the encoding succeeds and the pairs emitted for k are exactly
\* the one pair filter[k]=null.
C9_NullPair ==
  Encoded
    => \A i \in FilterKeys :
         ValueAt(i) = Null
           => /\ encOut.error = "none"
              /\ PairsFor(KeyAt(i)) = <<Param("filter[" \o KeyAt(i) \o "]", "null")>>

\* C10: in the encoders of model objects and of model connections, a sub-map
\* under labels gives exactly one pair filter[labels][subKey]=subValue per
\* sub-key, in sub-key order, and no pair named filter[labels] or
\* filter[labels][].
C10_LabelPairs ==
  (Encoded /\ encFn \in {"getModelObjects", "getModelConnections"})
    => \A i \in FilterKeys :
         (KeyAt(i) = "labels" /\ ValueAt(i).kind = "object")
           => /\ encOut.error = "none"
              /\ PairsFor("labels") =
                   [j \in 1..Len(ValueAt(i).entries) |->
                      Param("filter[labels][" \o ValueAt(i).entries[j][1] \o "]",
                            ValueAt(i).entries[j][2].s)]
              /\ \A j \in 1..Len(encOut.params) :
                   encOut.params[j].name \notin {"filter[labels]", "filter[labels][]"}

\* a labels sub-map of two sub-keys went through the model connections
\* encoder, next to another key
C10_Witness ==
  /\ encFn = "getModelConnections"
  /\ encOptions =
       WithFilter(<<<<"labels", Obj(<<<<"tier", Str("prod")>>, <<"env", Str("prod")>>>>)>>,
                    <<"type", Str("system")>>>>)
  /\ encOut.error = "none"
  /\ encOut.params =
       <<Param("filter[labels][tier]", "prod"), Param("filter[labels][env]", "prod"),
         Param("filter[type]", "system")>>

\* a list function was called twice with encOptions
CalledTwice == encPrev.fn # "none"

\* C11 (as stated): the four copies of the encoder emit the same sequence of
\* pairs for every filter description: two calls with the same description,
\* whatever the two list functions, end the same way with the same pairs.
C11_SameEncoding ==
  CalledTwice
    => /\ encOut.error = encPrev.out.error
       /\ encOut.params = encPrev.out.params

\* the position in the description of the key that pair p belongs to, 0 when
\* it belongs to none
KeyIndexOf(p) ==
  IF \E i \in FilterKeys : encOut.params[p].name \in NamesFor(KeyAt(i))
    THEN CHOOSE i \in FilterKeys : encOut.params[p].name \in NamesFor(KeyAt(i))
    ELSE 0

\* C12: the output is determined by the description (the same list function
\* called twice with it builds the same result) and is order-stable: every
\* pair belongs to a key of the description, pairs follow the key order of
\* the description, and the pairs of a list hold its items in list order.
C12_PureOrderStable ==
  /\ (CalledTwice /\ encPrev.fn = encFn) => encOut = encPrev.out
  /\ (Encoded /\ encOut.error = "none")
       => /\ \A p \in 1..Len(encOut.params) : KeyIndexOf(p) # 0
          /\ \A p, q \in 1..Len(encOut.params) :
               p < q => KeyIndexOf(p) <= KeyIndexOf(q)
          /\ \A i \in FilterKeys :
               ValueAt(i).kind = "array"
                 => [j \in 1..Len(PairsFor(KeyAt(i))) |-> PairsFor(KeyAt(i))[j].value]
                      = [j \in 1..Len(ValueAt(i).items) |-> ValueAt(i).items[j].s]

\* {type: [system, actor], external: false} was encoded twice by the model
\* objects function and gave the three pairs of the scenario, in that order
C12_Witness ==
  /\ encFn = "getModelObjects"
  /\ encPrev.fn = "getModelObjects"
  /\ encOptions =
       WithFilter(<<<<"type", Arr(<<Str("system"), Str("actor")>>)>>,
                    <<"external", Bool(FALSE)>>>>)
  /\ encOut.params =
       <<Param("filter[type][]", "system"), Param("filter[type][]", "actor"),
         Param("filter[external]", "false")>>
  /\ encPrev.out = encOut

\* every key of the filter is unset or holds an empty list
OnlyEmpty ==
  \A i \in FilterKeys : ValueAt(i) = Undefined \/ ValueAt(i) = Arr(<<>>)

\* C13: the url a list function requests contains a '?' exactly when the
\* encoder emitted at least one pair; with no filter, an empty filter, only
\* unset keys or only empty lists it is the bare path.
C13_MarkIffPairs ==
  (encFn # "none" /\ encOut.error = "none")
    => /\ Contains(encOut.url, "?") <=> Len(encOut.params) >= 1
       /\ Cardinality({j \in 1..Len(encOut.url) : encOut.url[j] = "?"}) <= 1
       /\ Len(encOut.params) = 0 => encOut.url = <<PathOf(encFn)>>
       /\ (~encOptions.hasFilter \/ OnlyEmpty) => encOut.url = <<PathOf(encFn)>>

\* the catalog function was called with a filter of an empty list and an
\* unset key and requested the bare path
C13_Witness ==
  /\ encFn = "getCatalogTechnologies"
  /\ encOptions =
       WithFilter(<<<<"type", Arr(<<>>)>>, <<"external", Undefined>>>>)
  /\ encOut.error = "none"
  /\ encOut.url = <<"/catalog/technologies">>

(***************************************************************************)
(* Properties of the list tools (Spec).                                    *)
(***************************************************************************)
ListTools == {"getModelObjects", "getTechnologyCatalog", "getTeams"}

\* a list tool has returned its result without a failure
ListDone ==
  /\ inv.state = "returned"
  /\ inv.tool \in ListTools
  /\ ~inv.failed
  /\ ~inv.thrown

\* the records of a received collection; a response without the collection
\* contributes the one value it has in its place
RecordsOf(value) == IF IsArray(value) THEN value.items ELSE <<value>>

\* the records the invocation received, in the order received (the catalog
\* technologies followed by the organization's)
Fetched ==
  CASE inv.tool = "getModelObjects" -> Get(inv.vals[1], "modelObjects").items
    [] inv.tool = "getTeams" -> Get(inv.vals[1], "teams").items
    [] inv.tool = "getTechnologyCatalog" ->
         Get(inv.vals[1], "catalogTechnologies").items
           \o RecordsOf(Get(inv.vals[2], "catalogTechnologies"))

\* the text the tool renders for a record
Rendered(record) ==
  CASE inv.tool = "getModelObjects" ->
         formatModelObjectListItem(Get(inv.args, "landscapeId"), record)
    [] inv.tool = "getTeams" -> formatTeam(record)
    [] inv.tool = "getTechnologyCatalog" -> formatCatalogTechnology(record)

SearchText == Get(inv.args, "search")
NoSearch == SearchText = Undefined \/ SearchText = Str("")

\* C14: when the search text is absent or the empty string, getModelObjects,
\* getTechnologyCatalog and getTeams leave the fetched collection as it is:
\* the result renders every fetched record, in the order fetched.
C14_NoSearchIdentity ==
  (ListDone /\ NoSearch)
    => inv.content = [i \in 1..Len(Fetched) |-> TextBlock(Rendered(Fetched[i]))]

C14_Witness ==
  /\ ListDone
  /\ inv.tool = "getTeams"
  /\ SearchText = Undefined
  /\ Fetched = <<Team1, Team3, Team2>>
  /\ Len(inv.content) = 3

\* the fields the tool has searched
SearchKeys == IF inv.tool = "getTeams" THEN {"name"} ELSE {"name", "description"}

\* the match score of a fetched record against the search text, in tenths
ScoreOf(j) == FuseScore(Fetched[j], SearchKeys, SearchText.s)

Shaped ==
  IF NoSearch THEN Fetched ELSE FuseSearch(Fetched, SearchKeys, SearchText.s)

\* C16: a successful result of a list tool holds exactly one text block per
\* record of the collection left by the search step, in that collection's
\* order, each block being the rendering of its record.
C16_OneBlockPerRecord ==
  ListDone
    => /\ Len(inv.content) = Len(Shaped)
       /\ \A i \in 1..Len(inv.content) :
            /\ inv.content[i].type = "text"
            /\ inv.content[i].text = Rendered(Shaped[i])

C16_Witness ==
  /\ ListDone
  /\ inv.tool = "getModelObjects"
  /\ Fetched = <<Object1, Object2>>
  /\ NoSearch
  /\ Len(inv.content) = 2
  /\ inv.content[2].text = formatModelObjectListItem(Str(L1), Object2)

(***************************************************************************)
(* FmtSpec: the formatters of format.ts applied to bounded records.        *)
(***************************************************************************)
\* the fields a record may carry, each with a value of its declared type
FmtEntries ==
  <<<<"name", Str("Api")>>, <<"name", Str("")>>, <<"id", Str(O1)>>,
    <<"handleId", Str("h1")>>, <<"description", Str("The shop")>>,
    <<"type", Str("app")>>, <<"external", Bool(FALSE)>>,
    <<"external", Bool(TRUE)>>, <<"status", Str("live")>>,
    <<"technologies", Obj(<<>>)>>,
    <<"technologies", Obj(<<<<"t1", Technology1>>>>)>>,
    <<"teamIds", Arr(<<>>)>>, <<"teamIds", Arr(<<Str(T1)>>)>>,
    <<"userIds", Arr(<<>>)>>, <<"userIds", Arr(<<Str("u1")>>)>>,
    <<"nameShort", Str("K")>>, <<"docsUrl", Str("https://docs")>>,
    <<"websiteUrl", Str("https://site")>>, <<"provider", Str("aws")>>,
    <<"category", Str("queue")>>, <<"defaultSlug", Str("kafka")>>>>

\* sets of at most n positions of FmtEntries
RECURSIVE PositionsUpTo(_)
PositionsUpTo(n) ==
  IF n = 0 THEN {{}}
  ELSE PositionsUpTo(n - 1)
         \cup {s \cup {i} : s \in PositionsUpTo(n - 1), i \in 1..Len(FmtEntries)}

\* the record holding the entries at the positions S
RecordAt(S) == Obj(SelectSeq(FmtEntries, LAMBDA e : \E i \in S : FmtEntries[i] = e))

\* records of at most MaxKeys + 1 fields, no field twice
FmtRecords ==
  {RecordAt(S) : S \in {T \in PositionsUpTo(MaxKeys + 1) :
                          \A i, j \in T : FmtEntries[i][1] = FmtEntries[j][1] => i = j}}

\* largest number of spaces in a generated description
MaxSpaces == 2

\* the lengths of the generated descriptions, and the indices (from 0) that
\* may hold a space: around the cut at maxLength and away from it
DescriptionLengths ==
  {1, maxLength - 1, maxLength, maxLength + 1, maxLength + 2, maxLength + 50}
SpaceIndices == {0, 1, 100, maxLength - 1, maxLength, maxLength + 1}

\* the characters of index first .. last: a space at the indices of spaces,
\* a letter elsewhere
RECURSIVE CharsFrom(_, _, _)
CharsFrom(first, last, spaces) ==
  IF first > last THEN ""
  ELSE IF first = last THEN (IF first \in spaces THEN " " ELSE "x")
  ELSE CharsFrom(first, (first + last) \div 2, spaces)
         \o CharsFrom((first + last) \div 2 + 1, last, spaces)

Descriptions ==
  {CharsFrom(0, length - 1, spaces) :
     length \in DescriptionLengths,
     spaces \in {S \in SUBSET SpaceIndices : Cardinality(S) <= MaxSpaces}}

\* model objects carrying a generated description
DescribedRecords ==
  {Obj(<<<<"id", Str(O1)>>, <<"description", Str(d)>>>>) : d \in Descriptions}

Formatters ==
  {"formatModelObjectListItem", "formatModelObjectItem",
   "formatModelObjectRelatedItem", "formatCatalogTechnology", "formatTeam"}

\* the text the formatter f returns for record (the detail takes the teams
\* of the organization, and neither a parent nor children)
Format(f, record) ==
  CASE f = "formatModelObjectListItem" ->
         formatModelObjectListItem(Str(L1), record)
    [] f = "formatModelObjectItem" ->
         formatModelObjectItem(Str(L1), record, Arr(<<Team1>>), Undefined,
                               Undefined)
    [] f = "formatModelObjectRelatedItem" -> formatModelObjectRelatedItem(record)
    [] f = "formatCatalogTechnology" -> formatCatalogTechnology(record)
    [] f = "formatTeam" -> formatTeam(record)

FmtInit ==
  /\ ProcIdle
  /\ EncIdle
  /\ ConcIdle
  /\ fmtRecord \in FmtRecords \cup DescribedRecords
  /\ fmtFn = "none"
  /\ fmtOut = <<>>

\* the formatter f is called with fmtRecord, once in a run
Render(f) ==
  /\ fmtFn = "none"
  /\ fmtFn' = f
  /\ fmtOut' = Format(f, fmtRecord)
  /\ UNCHANGED <<fmtRecord, procVars, encVars, concVars>>

RenderListItem == Render("formatModelObjectListItem")
RenderItem == Render("formatModelObjectItem")
RenderRelatedItem == Render("formatModelObjectRelatedItem")
RenderCatalogTechnology == Render("formatCatalogTechnology")
RenderTeam == Render("formatTeam")

FmtNext ==
  \/ RenderListItem
  \/ RenderItem
  \/ RenderRelatedItem
  \/ RenderCatalogTechnology
  \/ RenderTeam

FmtSpec == FmtInit /\ [][FmtNext]_vars

(***************************************************************************)
(* Properties of the formatters (FmtSpec).                                 *)
(***************************************************************************)
\* per formatter, the line labels of its template with the field each line
\* shows, in template order
LinesOf(f) ==
  CASE f = "formatModelObjectListItem" ->
         <<<<"# ", "name">>, <<"- ID: ", "id">>, <<"- Name: ", "name">>,
           <<"- Description: \n", "description">>, <<"- Type: ", "type">>,
           <<"- External: ", "external">>, <<"- Status: ", "status">>>>
    [] f = "formatModelObjectItem" ->
         <<<<"# ", "name">>, <<"- ID: ", "id">>, <<"- Name: ", "name">>,
           <<"- View in IcePanel: ", "handleId">>,
           <<"- Description:\n", "description">>, <<"- Type: ", "type">>,
           <<"- External: ", "external">>, <<"- Status: ", "status">>,
           <<"- Technologies: ", "technologies">>, <<"- Teams: ", "teamIds">>>>
    [] f = "formatModelObjectRelatedItem" ->
         <<<<"##### ", "name">>, <<"- ID: ", "id">>, <<"- Name: ", "name">>,
           <<"- Type: ", "type">>, <<"- Status: ", "status">>>>
    [] f = "formatCatalogTechnology" ->
         <<<<"# ", "name">>, <<"- Name: ", "name">>, <<"- ID: ", "id">>,
           <<"- Short Name: ", "nameShort">>,
           <<"- Description: ", "description">>,
           <<"- Documentation: ", "docsUrl">>, <<"- Website: ", "websiteUrl">>,
           <<"- Status: ", "status">>, <<"- Type: ", "type">>,
           <<"- Provider: ", "provider">>, <<"- Category: ", "category">>,
           <<"- Slug: ", "defaultSlug">>>>
    [] f = "formatTeam" ->
         <<<<"# ", "name">>, <<"- ID: ", "id">>, <<"- Name: ", "name">>,
           <<"- Team size: ", "userIds">>>>
    [] OTHER -> <<>>

\* the field is on the record and is not empty
PresentNonEmpty(value) ==
  value \notin {Undefined, Null, Str(""), Arr(<<>>), Obj(<<>>)}

\* where a label stands in the text (0 when it does not)
PlaceOf(label) ==
  IF Contains(fmtOut, label)
    THEN CHOOSE j \in 1..Len(fmtOut) :
           /\ fmtOut[j] = label
           /\ \A k \in 1..(j - 1) : fmtOut[k] # label
    ELSE 0

\* C17 (as stated): for each record kind, the line of a field is in the
\* rendered text if and only if the field is present and non-empty on the
\* record, and the lines that are there stand in the template's order.
C17_LineIffFieldPresent ==
  fmtFn # "none"
    => /\ \A i \in 1..Len(LinesOf(fmtFn)) :
            Contains(fmtOut, LinesOf(fmtFn)[i][1])
              <=> PresentNonEmpty(Get(fmtRecord, LinesOf(fmtFn)[i][2]))
       /\ \A i, j \in 1..Len(LinesOf(fmtFn)) :
            (i < j /\ PlaceOf(LinesOf(fmtFn)[i][1]) # 0
                   /\ PlaceOf(LinesOf(fmtFn)[j][1]) # 0)
              => PlaceOf(LinesOf(fmtFn)[i][1]) < PlaceOf(LinesOf(fmtFn)[j][1])

(***************************************************************************)
(* Properties of the relationships rendering (Spec).                       *)
(***************************************************************************)
\* getModelObjectRelationships has returned its text without a failure
RelationshipsDone ==
  /\ inv.state = "returned"
  /\ inv.tool = "getModelObjectRelationships"
  /\ ~inv.failed
  /\ ~inv.thrown

\* the position of the first part of text equal to piece (0 when none)
IndexOf(text, piece) ==
  IF Contains(text, piece)
    THEN CHOOSE j \in 1..Len(text) :
           text[j] = piece /\ \A k \in 1..(j - 1) : text[k] # piece
    ELSE 0

\* the rendered text between the 'Outgoing connections' heading and the
\* 'Referenced Model Objects' heading (or the end); empty without the heading
OutgoingSection ==
  LET text == inv.content[1].text
      from == IndexOf(text, "### Outgoing connections\n")
      to == IndexOf(text, "### Referenced Model Objects")
  IN IF from = 0 THEN <<>>
     ELSE SubSeq(text, from + 1, IF to = 0 THEN Len(text) ELSE to - 1)

\* the connection names of the lines of a section, in order
LineNames(section) ==
  LET at == SelectSeq([j \in 1..Len(section) |-> j],
                      LAMBDA j : j > 1 /\ section[j - 1] = ") -[")
  IN [i \in 1..Len(at) |-> section[at[i]]]

\* the outgoing connections fetched (third call) whose target is one of the
\* model objects fetched (second call)
OutgoingFound ==
  SelectSeq(Items(Get(inv.vals[3], "modelConnections")),
            LAMBDA c : Truthy(FindById(Items(Get(inv.vals[2], "modelObjects")),
                                       Get(c, "targetId"))))

\* C18 (as stated): the 'Outgoing connections' section has one line per
\* outgoing connection whose targetId is among the fetched model objects, in
\* the order of the outgoing list, whatever the incoming list holds.
C18_OutgoingFromOutgoingList ==
  RelationshipsDone
    => LineNames(OutgoingSection)
         = [i \in 1..Len(OutgoingFound) |-> JsString(Get(OutgoingFound[i], "name"))]

(***************************************************************************)
(* Properties of the diagram tools (Spec).                                 *)
(***************************************************************************)
\* C19 (as stated): when the DELETE request of deleteDiagram is answered
\* with a 2xx status, the tool returns its success text, whatever the body
\* of the response is (an empty body included).
C19_DeleteSucceedsOn2xx ==
  (/\ inv.state = "returned"
   /\ inv.tool = "deleteDiagram"
   /\ Len(inv.calls) = 1
   /\ inv.calls[1].request.method = "DELETE"
   /\ inv.calls[1].status \in 200..299)
    => inv.content
         = <<TextBlock(<<"Successfully deleted diagram with ID: ",
                         JsString(Get(inv.args, "diagramId"))>>)>>

\* the fields of a diagram the updateDiagram tool takes
DiagramFields == {"name", "viewType", "description", "rootObjectId", "objectIds"}

\* the calls of the invocation that are PATCH requests
Patches == {i \in 1..Len(inv.calls) : inv.calls[i].request.method = "PATCH"}

\* C20: the PATCH body sent by the updateDiagram tool holds exactly the
\* diagram fields the caller supplied, with the supplied values; the PATCH
\* body sent by addObjectsToDiagram holds objectIds and nothing else.
C20_PatchBodyPartial ==
  /\ (InHandler /\ inv.tool = "updateDiagram")
       => \A i \in Patches :
            inv.calls[i].request.body
              = Stringify(Obj(SelectSeq(inv.args.entries,
                                        LAMBDA e : e[1] \in DiagramFields)))
  /\ (InHandler /\ inv.tool = "addObjectsToDiagram")
       => \A i \in Patches :
            \E ids \in SeqUpTo({Str(O1), Str(O2)}, 3) :
              inv.calls[i].request.body
                = Stringify(Obj(<<<<"objectIds", Arr(ids)>>>>))

C20_Witness ==
  /\ InHandler
  /\ inv.tool = "updateDiagram"
  /\ Get(inv.args, "viewType") = Undefined
  /\ Patches = {1}
  /\ inv.calls[1].request.body = "{\"name\":\"Overview\",\"description\":\"Api\"}"

(***************************************************************************)
(* ConcSpec: invocations served at the same time.  Each slot runs one      *)
(* handler; a handler runs from one await to the next without interruption *)
(* (one event-loop turn), and the turns of the slots interleave freely.    *)
(* The remote keeps one diagram and answers diagram requests from it.      *)
(***************************************************************************)
\* the object ids the remote diagram and the callers use
ConcIds == {Str(O1), Str(O2), Str(O3)}

\* the objectIds of the remote diagram before any invocation
InitialObjectIds == <<Str(O1)>>

\* the diagram as the remote returns it
RemoteDiagram(ids) ==
  Obj(<<<<"id", Str("d1")>>, <<"name", Str("Overview")>>, <<"objectIds", Arr(ids)>>>>)

\* the remote reading the body of a PATCH: the objectIds it carries
BodyObjectIds(body) ==
  CHOOSE ids \in SeqUpTo(ConcIds, 3) :
    Stringify(Obj(<<<<"objectIds", Arr(ids)>>>>)) = body

ConcTools == {"getDiagram", "getTeams", "addObjectsToDiagram"}

\* the argument records offered to a tool
ConcArgs(tool) ==
  CASE tool = "getDiagram" -> {[landscapeId |-> Str(L1), diagramId |-> Str("d1")]}
    [] tool = "getTeams" -> {[search |-> Str("Cor")], [search |-> Str("")]}
    [] tool = "addObjectsToDiagram" ->
         {[landscapeId |-> Str(L1), diagramId |-> Str("d1"), objectIds |-> Arr(ids)] :
            ids \in {<<>>, <<Str(O2)>>, <<Str(O3)>>, <<Str(O1), Str(O2)>>}}

ConcInit ==
  /\ pc = "serving"
  /\ argv = <<>>
  /\ env = [k \in ConfigKeys |-> SetTo("k")]
  /\ overridden = [k \in ConfigKeys |-> NotGiven]
  /\ exitCode = -1
  /\ stderr = <<>>
  /\ registered = Tools
  /\ connected = TRUE
  /\ inv = Idle
  /\ EncIdle
  /\ FmtIdle
  /\ invs = [i \in Slots |-> Idle]
  /\ remote = InitialObjectIds

\* a tools/call request arrives while slot i is free: the handler runs to its
\* first await or to its return
Invoke(i) ==
  /\ invs[i].state = "idle"
  /\ \E tool \in ConcTools : \E a \in ConcArgs(tool) :
       /\ SchemaAccepts(tool, a)
       /\ invs' = [invs EXCEPT ![i] = After(tool, Parse(tool, a),
                                            Started(tool, Parse(tool, a)), <<>>)]
  /\ UNCHANGED <<remote, procVars, encVars, fmtVars>>

\* slot i serves an invocation
Running(i) == invs[i].state # "idle"

\* the request slot i waits for
Pending(i) == invs[i].calls[Len(invs[i].calls)].request

\* the values kept in one module-level buffer that every handler reads: what
\* the first slot received so far
OwnVals_Shared(i) == IF Running(1) THEN invs[1].vals ELSE invs[i].vals

\* the values the handler of slot i holds in its local constants

OwnVals(i) == invs[i].vals

\* the handler of slot i resumed at its await with the response to its call
Resumed(i, response) ==
  After(invs[i].tool, invs[i].args,
        Awaited(invs[i].tool, invs[i].args, OwnVals(i),
                Settle(Pending(i).fn, apiRequest(response))),
        Completed(invs[i].calls, apiRequest(response).outcome, response,
                  apiRequest(response).read))

\* what the remote answers to a request it carries out
Answers(request) ==
  CASE request.fn = "getDiagram" ->
         {Response(200, "OK", JsonBody(Wrap("diagram", RemoteDiagram(remote))))}
    [] request.fn = "updateDiagram" ->
         {Response(200, "OK",
                   JsonBody(Wrap("diagram",
                                 RemoteDiagram(BodyObjectIds(request.body)))))}
    [] OTHER -> {Response(200, "OK", b) : b \in GoodBodies(request.fn)}

\* the remote carries out the request of slot i and answers; a PATCH replaces
\* the objectIds of the diagram
RemoteAnswers(i) ==
  /\ invs[i].state = "awaiting"
  /\ \E response \in Answers(Pending(i)) :
       invs' = [invs EXCEPT ![i] = Resumed(i, response)]
  /\ remote' = IF Pending(i).fn = "updateDiagram"
                 THEN BodyObjectIds(Pending(i).body)
                 ELSE remote
  /\ UNCHANGED <<procVars, encVars, fmtVars>>

\* the remote refuses the request of slot i and changes nothing
RemoteRefuses(i) ==
  /\ invs[i].state = "awaiting"
  /\ invs' = [invs EXCEPT ![i] =
                Resumed(i, Response(500, "Internal Server Error",
                                    TextBody("internal error")))]
  /\ UNCHANGED <<remote, procVars, encVars, fmtVars>>

ConcNext ==
  \/ \E i \in Slots : Invoke(i)
  \/ \E i \in Slots : RemoteAnswers(i)
  \/ \E i \in Slots : RemoteRefuses(i)

ConcSpec == ConcInit /\ [][ConcNext]_vars

(***************************************************************************)
(* Properties of concurrent invocations (ConcSpec).                        *)
(***************************************************************************)
\* what slot i was given: its tool, its arguments and the responses to its
\* calls so far
GivenTo(i) ==
  <<invs[i].tool, invs[i].args,
    [j \in 1..Len(invs[i].calls) |->
       <<invs[i].calls[j].outcome, invs[i].calls[j].status,
         invs[i].calls[j].raw>>]>>

\* what slot i did: its remote calls in order and its result
DoneBy(i) ==
  <<[j \in 1..Len(invs[i].calls) |-> invs[i].calls[j].request],
    invs[i].state, invs[i].content>>

ListItemDescribed ==
  /\ fmtFn = "formatModelObjectListItem"
  /\ Truthy(Get(fmtRecord, "description"))

\* the description of the record, and the part rendered before the '...'
GivenDescription == Get(fmtRecord, "description").s
ShownDescription == fmtOut[IndexOf(fmtOut, "- Description: \n") + 1]

\* the indices (from 0) in 1..maxLength at which the description has a space
SpacesAt ==
  {i \in 1..maxLength :
     i < Len(GivenDescription) /\ SubSeq(GivenDescription, i + 1, i + 1) = " "}

\* C30: the description formatModelObjectListItem renders before the
\* trailing '...' is a prefix of the record's description of at most 150
\* characters: the whole description when that has at most 150 characters,
\* else the part before the last space at an index in 1..150, or the first
\* 150 characters when there is no such space.
C30_DescriptionPrefix ==
  ListItemDescribed
    => /\ fmtOut[IndexOf(fmtOut, "- Description: \n") + 2] = "...\n"
       /\ Len(ShownDescription) <= 150
       /\ ShownDescription = SubSeq(GivenDescription, 1, Len(ShownDescription))
       /\ Len(GivenDescription) <= 150 => ShownDescription = GivenDescription
       /\ (Len(GivenDescription) > 150 /\ SpacesAt # {})
            => /\ Len(ShownDescription) \in SpacesAt
               /\ \A i \in SpacesAt : i <= Len(ShownDescription)
       /\ (Len(GivenDescription) > 150 /\ SpacesAt = {})
            => Len(ShownDescription) = 150

\* a description of 152 characters with spaces at the indices 100 and 150 is
\* cut just before the space of index 150
C30_Witness ==
  /\ ListItemDescribed
  /\ Len(GivenDescription) = 152
  /\ SpacesAt = {100, 150}
  /\ Len(ShownDescription) = 150
  /\ ShownDescription = SubSeq(GivenDescription, 1, 150)

(***************************************************************************)
(* Properties of the remote calls of an invocation (Spec).                 *)
(***************************************************************************)
\* the API functions the invocation called, in order
CalledFns == [j \in 1..Len(inv.calls) |-> inv.calls[j].request.fn]

\* getModelObject has returned its text without a failure
ObjectDone ==
  /\ inv.state = "returned"
  /\ inv.tool = "getModelObject"
  /\ ~inv.failed
  /\ ~inv.thrown

Enriched == Get(inv.args, "includeHierarchicalInfo") = Bool(TRUE)

\* C22 (as stated): getModelObject with hierarchical enrichment issues
\* exactly three remote calls in the order object, full object collection,
\* teams; without enrichment exactly two, object then teams.
C22_CallsCollectionBeforeTeams ==
  ObjectDone
    => CalledFns = IF Enriched
                     THEN <<"getModelObject", "getModelObjects", "getTeams">>
                     ELSE <<"getModelObject", "getTeams">>

\* C22 (amended): a getModelObject invocation that returns its text issued,
\* with hierarchical enrichment, exactly three remote calls in the order
\* object, teams, full object collection; without enrichment exactly two,
\* object then teams.
C22_CallsTeamsBeforeCollection ==
  ObjectDone
    => CalledFns = IF Enriched
                     THEN <<"getModelObject", "getTeams", "getModelObjects">>
                     ELSE <<"getModelObject", "getTeams">>

C22_Witness ==
  /\ ObjectDone
  /\ Enriched
  /\ Len(inv.calls) = 3
  /\ inv.calls[3].request.fn = "getModelObjects"
  /\ inv.calls[3].outcome = "ok"

\* C23: the remote calls of an invocation are issued one after the other: at
\* most one is outstanding (the last one, while the handler waits), and every
\* call before the last completed successfully; getModelObjectRelationships,
\* when it returns its text, has issued exactly four calls: the object, the
\* full object collection, the connections filtered by originId, the
\* connections filtered by targetId.
C23_SequentialCalls ==
  /\ InHandler
       => /\ \A j \in 1..(Len(inv.calls) - 1) : inv.calls[j].outcome = "ok"
          /\ inv.state = "awaiting"
               <=> (Len(inv.calls) > 0
                      /\ inv.calls[Len(inv.calls)].outcome = "pending")
  /\ RelationshipsDone
       => /\ CalledFns = <<"getModelObject", "getModelObjects",
                           "getModelConnections", "getModelConnections">>
          /\ Contains(inv.calls[2].request.url, "?") = FALSE
          /\ Contains(inv.calls[3].request.url, "filter[originId]")
          /\ ~Contains(inv.calls[3].request.url, "filter[targetId]")
          /\ Contains(inv.calls[4].request.url, "filter[targetId]")
          /\ ~Contains(inv.calls[4].request.url, "filter[originId]")

C23_Witness ==
  /\ RelationshipsDone
  /\ Len(inv.calls) = 4
  /\ \A j \in 1..4 : inv.calls[j].outcome = "ok"
  /\ Contains(inv.calls[3].request.url, "filter[originId]")

(***************************************************************************)
(* Properties of addObjectsToDiagram and the diagram tools (Spec).         *)
(***************************************************************************)
\* addObjectsToDiagram has issued its PATCH request
AddPatched ==
  /\ InHandler
  /\ inv.tool = "addObjectsToDiagram"
  /\ Len(inv.calls) >= 2

\* the diagram's objectIds as the first call returned them, then the
\* supplied ones
SeenIds ==
  Items(Get(Get(inv.vals[1], "diagram"), "objectIds"))
    \o Items(Get(inv.args, "objectIds"))

\* where an id is first seen in SeenIds
FirstSeen(id) == CHOOSE p \in 1..Len(SeenIds) :
                   SeenIds[p] = id /\ \A q \in 1..(p - 1) : SeenIds[q] # id

\* ids is the union of SeenIds without repetition, in first-seen order
IsUnionOfSeen(ids) ==
  /\ {ids[p] : p \in 1..Len(ids)} = {SeenIds[p] : p \in 1..Len(SeenIds)}
  /\ \A p, q \in 1..Len(ids) : p < q => FirstSeen(ids[p]) < FirstSeen(ids[q])

\* C24: the objectIds addObjectsToDiagram sends are the diagram's current
\* objectIds followed by the supplied ones, each id once, in first-seen
\* order; the total it reports is the length of that list.
C24_DedupedUnion ==
  AddPatched
    => \E ids \in SeqUpTo({Str(O1), Str(O2)}, 3) :
         /\ inv.calls[2].request.body
              = Stringify(Obj(<<<<"objectIds", Arr(ids)>>>>))
         /\ IsUnionOfSeen(ids)
         /\ (inv.state = "returned" /\ ~inv.failed)
              => /\ inv.content[1].text[7] = ").\nThe diagram now contains "
                 /\ inv.content[1].text[8] = LengthString(ids)

C24_Witness ==
  /\ AddPatched
  /\ inv.state = "returned"
  /\ ~inv.failed
  /\ SeenIds = <<Str(O1), Str(O1), Str(O2), Str(O1)>>
  /\ inv.calls[2].request.body
       = Stringify(Obj(<<<<"objectIds", Arr(<<Str(O1), Str(O2)>>)>>>>))
  /\ inv.content[1].text[8] = "2"

\* call j of the invocation is the request that changes the remote diagrams
\* (the create POST, the update PATCH) and it completed successfully
MutationSucceeded(j) ==
  /\ inv.calls[j].request.method \in {"POST", "PATCH"}
  /\ inv.calls[j].outcome = "ok"

\* C26: when createDiagram or addObjectsToDiagram returns its error text,
\* the mutating request (create POST, update PATCH) did not succeed.
C26_ErrorMeansNoMutation ==
  (/\ inv.state = "returned"
   /\ inv.tool \in {"createDiagram", "addObjectsToDiagram"}
   /\ inv.failed)
    => \A j \in 1..Len(inv.calls) : ~MutationSucceeded(j)

\* the tools that require a non-empty objectIds
NeedObjectIds == {"createDiagramWithObjects", "addObjectsToDiagram"}

EmptyObjectIds == Len(Items(Get(inv.args, "objectIds"))) = 0

\* C27: createDiagramWithObjects and addObjectsToDiagram called with an
\* empty objectIds return the error text 'objectIds must be a non-empty
\* array of strings' and issue no remote call; a remote call is issued only
\* for a non-empty list.
C27_EmptyObjectIdsRejected ==
  (InHandler /\ inv.tool \in NeedObjectIds)
    => /\ EmptyObjectIds
            => /\ inv.state = "returned"
               /\ Len(inv.calls) = 0
               /\ Len(inv.content) = 1
               /\ inv.content[1].type = "text"
               /\ Len(inv.content[1].text) = 2
               /\ inv.content[1].text[2]
                    = "objectIds must be a non-empty array of strings"
       /\ Len(inv.calls) > 0 => ~EmptyObjectIds

C27_Witness ==
  /\ inv.state = "returned"
  /\ inv.tool = "createDiagramWithObjects"
  /\ Get(inv.args, "objectIds") = Arr(<<>>)
  /\ Len(inv.calls) = 0
  /\ inv.content[1].text
       = <<"Error creating diagram with objects: ",
           "objectIds must be a non-empty array of strings">>

(***************************************************************************)
(* Properties of the getModelObjects and getModelObject tools (Spec).      *)
(***************************************************************************)
\* getModelObjects has issued its request
ObjectsCalled ==
  /\ InHandler
  /\ inv.tool = "getModelObjects"
  /\ Len(inv.calls) >= 1

\* the name=value pairs of the query string of the first request, in order
SentPairs ==
  LET url == inv.calls[1].request.url
  IN [i \in 1..((Len(url) + 1) \div 4) |-> <<url[4 * i - 1], url[4 * i + 1]>>]

\* the text a value has in a query string
QueryText(v) ==
  CASE v = Null -> "null"
    [] v = Bool(TRUE) -> "true"
    [] v = Bool(FALSE) -> "false"
    [] OTHER -> v.s

\* the pairs an argument stands for: one per item for a list, else one
ArgPairs(key, v) ==
  IF IsArray(v)
    THEN [i \in 1..Len(v.items) |->
            <<"filter[" \o key \o "][]", QueryText(v.items[i])>>]
    ELSE <<<<"filter[" \o key \o "]", QueryText(v)>>>>

RECURSIVE AllArgPairs(_)
AllArgPairs(entries) ==
  IF entries = <<>> THEN <<>>
  ELSE (IF Head(entries)[1] = "landscapeId" THEN <<>>
        ELSE ArgPairs(Head(entries)[1], Head(entries)[2]))
       \o AllArgPairs(Tail(entries))

\* C28: the filter getModelObjects sends is exactly its arguments other than
\* landscapeId after the schema defaults: filter[external] is always sent
\* (false unless the caller gave true), and a supplied search is sent as
\* filter[search] as well as applied to the fetched records.
C28_FilterIsArguments ==
  ObjectsCalled
    => /\ SentPairs = AllArgPairs(inv.args.entries)
       /\ Cardinality({i \in DOMAIN SentPairs :
                         SentPairs[i][1] = "filter[external]"}) = 1
       /\ \E i \in DOMAIN SentPairs :
            /\ SentPairs[i][1] = "filter[external]"
            /\ SentPairs[i][2] = (IF Get(inv.args, "external") = Bool(TRUE)
                                    THEN "true" ELSE "false")
       /\ SearchText # Undefined
            => \E i \in DOMAIN SentPairs :
                 SentPairs[i] = <<"filter[search]", SearchText.s>>
       /\ (ListDone /\ ~NoSearch)
            => inv.content
                 = [i \in 1..Len(FuseSearch(Fetched, SearchKeys, SearchText.s)) |->
                      TextBlock(Rendered(
                        FuseSearch(Fetched, SearchKeys, SearchText.s)[i]))]

\* the caller gave only landscapeId and a search text: both filter[external]
\* and filter[search] were sent, and the search left one of two records
C28_Witness ==
  /\ ObjectsCalled
  /\ ListDone
  /\ SentPairs = <<<<"filter[external]", "false">>,
                   <<"filter[search]", "Api">>>>
  /\ Fetched = <<Object1, Object2>>
  /\ inv.content = <<TextBlock(Rendered(Object1))>>

\* the object getModelObject fetched, and the collection it fetched
TheObject == Get(inv.vals[1], "modelObject")
TheCollection == Items(Get(inv.vals[3], "modelObjects"))

\* the object names a parent: parentId is non-empty and not 'root'
NamesParent ==
  /\ Get(TheObject, "parentId") \notin {Undefined, Null, Str(""), Str("root")}

\* the positions in the collection of the records with the parent's id, and
\* of the records whose id is among childIds
ParentAt ==
  {j \in 1..Len(TheCollection) :
     Get(TheCollection[j], "id") = Get(TheObject, "parentId")}
ChildrenAt ==
  {j \in 1..Len(TheCollection) :
     \E k \in 1..Len(Items(Get(TheObject, "childIds"))) :
       Get(TheObject, "childIds").items[k] = Get(TheCollection[j], "id")}

ParentHeading == "### Parent Object\n\n"
ChildHeading == "### Child Objects\n\n"

\* the rendered text after the first part equal to heading
TextAfter(heading) ==
  SubSeq(inv.content[1].text, IndexOf(inv.content[1].text, heading) + 1,
         Len(inv.content[1].text))

\* text begins with the parts of lead
StartsWith(text, lead) ==
  Len(text) >= Len(lead) /\ SubSeq(text, 1, Len(lead)) = lead

\* C29: getModelObject with enrichment renders as parent the record of the
\* fetched collection whose id is the object's parentId, and only when
\* parentId is non-empty and not 'root'; it renders as children the records
\* of the collection whose id is among childIds, in the collection's order,
\* and only when childIds is non-empty; without enrichment it renders
\* neither a Parent Object nor a Child Objects section.
C29_ParentAndChildren ==
  ObjectDone
    => /\ ~Enriched
            => /\ ~Contains(inv.content[1].text, ParentHeading)
               /\ ~Contains(inv.content[1].text, ChildHeading)
       /\ Enriched
            => /\ Contains(inv.content[1].text, ParentHeading)
                    <=> (NamesParent /\ ParentAt # {})
               /\ Contains(inv.content[1].text, ParentHeading)
                    => \E j \in ParentAt :
                         /\ \A k \in ParentAt : j <= k
                         /\ StartsWith(TextAfter(ParentHeading),
                              formatModelObjectRelatedItem(TheCollection[j])
                                \o <<"\n\n">>)
               /\ Contains(inv.content[1].text, ChildHeading)
                    <=> Len(Items(Get(TheObject, "childIds"))) > 0
               /\ Contains(inv.content[1].text, ChildHeading)
                    => \E at \in [1..Cardinality(ChildrenAt) -> ChildrenAt] :
                         /\ \A i, k \in DOMAIN at : i < k => at[i] < at[k]
                         /\ TextAfter(ChildHeading)
                              = JoinTexts([i \in DOMAIN at |->
                                  formatModelObjectRelatedItem(
                                    TheCollection[at[i]])], "\n\n")

\* the object names no parent and lists its children against the order of
\* the collection: no parent is rendered, the children come in the
\* collection's order
C29_Witness ==
  /\ ObjectDone
  /\ Enriched
  /\ TheObject = Object3
  /\ TheCollection = <<Object1, Object2>>
  /\ ~Contains(inv.content[1].text, ParentHeading)
  /\ TextAfter(ChildHeading)
       = formatModelObjectRelatedItem(Object1) \o <<"\n\n">>
           \o formatModelObjectRelatedItem(Object2)

(***************************************************************************)
(* Properties of two invocations against one diagram (ConcSpec).           *)
(***************************************************************************)
\* slot i is an addObjectsToDiagram invocation that returned its success text
AddedOk(i) ==
  /\ invs[i].state = "returned"
  /\ invs[i].tool = "addObjectsToDiagram"
  /\ ~invs[i].failed

\* the ids the remote diagram holds
RemoteIds == {remote[p] : p \in 1..Len(remote)}

\* the ids slot i was asked to add
SuppliedIds(i) == LET ids == Items(Get(invs[i].args, "objectIds"))
                  IN  {ids[p] : p \in 1..Len(ids)}

\* C25: when two addObjectsToDiagram invocations on the same diagram have
\* both returned success, the diagram holds every id it held before and
\* every id either invocation supplied, whatever the interleaving of their
\* GET, PATCH, GET steps.
C25_NoLostUpdate ==
  (AddedOk(1) /\ AddedOk(2))
    => /\ {InitialObjectIds[p] : p \in 1..Len(InitialObjectIds)} \subseteq RemoteIds
       /\ SuppliedIds(1) \subseteq RemoteIds
       /\ SuppliedIds(2) \subseteq RemoteIds

====
